---- MODULE Spec2Model ----
(***************************************************************************)
(* Model of the agent reasoning loop of yt-agentic-rag                     *)
(* (app/agents/orchestrator.py): AgentService.process_query and the        *)
(* helpers it calls (_get_rag_context, _build_initial_messages,            *)
(* _extract_citations).                                                    *)
(*                                                                         *)
(* Strings that the code inspects character by character (chunk ids, the   *)
(* final text) are sequences of one-character strings; strings the code    *)
(* only passes around are single tokens.  A Python value that may be None  *)
(* is a record [isNone, v].                                                *)
(***************************************************************************)
EXTENDS Integers, Sequences, FiniteSets, TLC

\* ---------------------------------------------------------------- bounds
\* largest max_iterations a caller passes (the smallest is -1)
MaxIter == 2
\* most tool calls in one provider response
MaxCalls == 2
\* most tool calls the provider requests in one run
MaxTotal == 3
\* most candidates the retrieval client returns when the assembler is checked alone
MaxCand == 5
\* longest final text when the citation extractor is checked alone
MaxTextLen == 6
\* longest chat history when the prompt builder is checked alone
MaxHist == 3

\* the context cap of _get_rag_context
ContextCap == 4

\* ---------------------------------------------------------------- optional values
NoneText == [isNone |-> TRUE, v |-> <<>>]
SomeText(s) == [isNone |-> FALSE, v |-> s]
NoneStr == [isNone |-> TRUE, v |-> ""]
SomeStr(s) == [isNone |-> FALSE, v |-> s]

\* Python truthiness of an optional string: None and '' are falsy
Truthy(o) == ~o.isNone /\ Len(o.v) > 0

\* ---------------------------------------------------------------- context blocks
\* A search result: result.get('chunk_id', '') tolerates a missing key.
Block(id) == [has_id |-> TRUE, chunk_id |-> id]
BlockNoId == [has_id |-> FALSE, chunk_id |-> <<>>]

\* result.get('chunk_id', '')
GetChunkId(b) == IF b.has_id THEN b.chunk_id ELSE <<>>

RECURSIVE FirstHash(_, _)
\* index of the first '#' of s at or after i, 0 when there is none
FirstHash(s, i) ==
    IF i > Len(s) THEN 0
    ELSE IF s[i] = "#" THEN i
    ELSE FirstHash(s, i + 1)

\* chunk_id.split('#')[0] if '#' in chunk_id else chunk_id
BaseId(s) ==
    LET h == FirstHash(s, 1)
    IN IF h = 0 THEN s ELSE SubSeq(s, 1, h - 1)

RECURSIVE DedupFromNoSeen(_, _, _, _)
\* the loop without the seen_prefixes test
DedupFromNoSeen(results, i, seen, blocks) ==
    IF i > Len(results) THEN blocks
    ELSE LET blocks2 == Append(blocks, results[i])
         IN IF Len(blocks2) >= 4 THEN blocks2
            ELSE DedupFromNoSeen(results, i + 1, seen, blocks2)

RECURSIVE DedupFromSeenIds(_, _, _, _)
\* a loop that remembers the whole chunk id where it should remember the base id
DedupFromSeenIds(results, i, seen, blocks) ==
    IF i > Len(results) THEN blocks
    ELSE LET base == BaseId(GetChunkId(results[i]))
             fresh == base \notin seen
             blocks2 == IF fresh THEN Append(blocks, results[i]) ELSE blocks
             seen2 == IF fresh THEN seen \cup {GetChunkId(results[i])} ELSE seen
         IN IF Len(blocks2) >= ContextCap THEN blocks2
            ELSE DedupFromSeenIds(results, i + 1, seen2, blocks2)

RECURSIVE DedupFrom(_, _, _, _)
\* the for loop of _get_rag_context over search_results[i..]
DedupFrom(results, i, seen, blocks) ==
    IF i > Len(results) THEN blocks
    ELSE LET base == BaseId(GetChunkId(results[i]))
             fresh == base \notin seen
             blocks2 == IF fresh THEN Append(blocks, results[i]) ELSE blocks
             seen2 == IF fresh THEN seen \cup {base} ELSE seen
         IN IF Len(blocks2) >= ContextCap THEN blocks2
            ELSE DedupFrom(results, i + 1, seen2, blocks2)

\* the deduplication and cap of _get_rag_context
DedupContext(results) == DedupFrom(results, 1, {}, <<>>)

\* ---------------------------------------------------------------- citations
RECURSIVE FirstClose(_, _)
\* index of the first ']' of text at or after i, 0 when there is none
FirstClose(text, i) ==
    IF i > Len(text) THEN 0
    ELSE IF text[i] = "]" THEN i
    ELSE FirstClose(text, i + 1)

RECURSIVE FindAll(_, _)
\* re.findall(r'\[([^\]]+)\]', text) scanning from position i
FindAll(text, i) ==
    IF i > Len(text) THEN <<>>
    ELSE IF text[i] # "[" THEN FindAll(text, i + 1)
    ELSE LET j == FirstClose(text, i + 1)
         IN IF j > i + 1
            THEN <<SubSeq(text, i + 1, j - 1)>> \o FindAll(text, j + 1)
            ELSE FindAll(text, i + 1)

\* the elements of s, as a set
Range(s) == {s[i] : i \in DOMAIN s}

RECURSIVE Unique(_, _, _)
\* the 'remove duplicates while preserving order' loop
Unique(cites, i, acc) ==
    IF i > Len(cites) THEN acc
    ELSE IF cites[i] \in Range(acc) THEN Unique(cites, i + 1, acc)
    ELSE Unique(cites, i + 1, Append(acc, cites[i]))

\* a filter that keeps every bracketed token
FilterKeepAll(cites, valid, i) == cites

RECURSIVE Filter(_, _, _)
\* [cite for cite in found_citations if cite in valid_chunk_ids]
Filter(cites, valid, i) ==
    IF i > Len(cites) THEN <<>>
    ELSE IF cites[i] \in valid THEN <<cites[i]>> \o Filter(cites, valid, i + 1)
    ELSE Filter(cites, valid, i + 1)

\* block['chunk_id'] raises KeyError on a block without the key
CitationsRaise(context_blocks) == \E i \in DOMAIN context_blocks : ~context_blocks[i].has_id

\* _extract_citations(text, context_blocks), when it does not raise
ExtractCitations(text, context_blocks) ==
    LET valid == {context_blocks[i].chunk_id : i \in DOMAIN context_blocks}
    IN Unique(Filter(FindAll(text, 1), valid, 1), 1, <<>>)

\* ---------------------------------------------------------------- JSON
\* a lenient parser that turns text that is not JSON into an empty object
JsonLoadsLenient(s) ==
    IF s = "[]" THEN [ok |-> TRUE, kind |-> "array", src |-> s]
    ELSE [ok |-> TRUE, kind |-> "object", src |-> s]

\* json.loads(tool_call['function']['arguments']): '{' is not valid JSON, '[]' is
\* valid JSON that is not an object
JsonLoads(s) ==
    IF s = "{" THEN [ok |-> FALSE, kind |-> "none", src |-> s]
    ELSE IF s = "[]" THEN [ok |-> TRUE, kind |-> "array", src |-> s]
    ELSE [ok |-> TRUE, kind |-> "object", src |-> s]

\* execute_tool(tool_name, **tool_args) needs a mapping after **
IsMapping(v) == v.kind = "object"

\* json.dumps(result) of a registry outcome
JsonDumps(out) ==
    IF out.success
    THEN "{success: true, result: " \o out.result.v \o ", error: null}"
    ELSE "{success: false, result: null, error: " \o out.error.v \o "}"

\* ---------------------------------------------------------------- BaseTool
\* a response that carries an empty error string next to its result
SuccessResponseWithError(result) ==
    [success |-> TRUE, result |-> result, error |-> SomeStr("")]

\* _success_response(result)
SuccessResponse(result) ==
    [success |-> TRUE, result |-> result, error |-> NoneStr]

\* _error_response(error)
ErrorResponse(error) ==
    [success |-> FALSE, result |-> NoneStr, error |-> error]

RECURSIVE MissingFalsy(_, _, _)
\* a comprehension that tests the value's truth, so that '' counts as missing
MissingFalsy(required, provided, i) ==
    IF i > Len(required) THEN <<>>
    ELSE LET param == required[i]
             rest == MissingFalsy(required, provided, i + 1)
         IN IF param \notin DOMAIN provided \/ provided[param].isNone
               \/ provided[param].v = ""
            THEN <<param>> \o rest
            ELSE rest

\* the comprehension of validate_params: the required names that are absent from
\* provided or whose value is None, in the order of required
RECURSIVE Missing(_, _, _)
Missing(required, provided, i) ==
    IF i > Len(required) THEN <<>>
    ELSE LET param == required[i]
             rest == Missing(required, provided, i + 1)
         IN IF param \notin DOMAIN provided \/ provided[param].isNone
            THEN <<param>> \o rest
            ELSE rest

\* validate_params(required, provided)
ValidateParams(required, provided) ==
    LET missing == Missing(required, provided, 1)
    IN [is_valid |-> missing = <<>>, missing |-> missing]

\* ', '.join(names)
RECURSIVE Join(_, _)
Join(names, i) ==
    IF i > Len(names) THEN ""
    ELSE IF i = Len(names) THEN names[i]
    ELSE names[i] \o ", " \o Join(names, i + 1)

\* ---------------------------------------------------------------- inputs of a run
VARIABLES pc, max_iterations, top_k, chat_history, search_results, rag_context,
          messages,
          iteration, final_response, pending, idx, tool_calls_made,
          tool_results, result,
          fault, provider_calls, turns, completed, retrieval_failed,
          sent, provider_raised, invoked,
          provider, logical, request, wire, response,
          email_pc, email_args, service, initialized, http_error_bound,
          email_exc, email_out,
          runs

vars == <<pc, max_iterations, top_k, chat_history, search_results, rag_context,
          messages,
          iteration, final_response, pending, idx, tool_calls_made,
          tool_results, result,
          fault, provider_calls, turns, completed, retrieval_failed,
          sent, provider_raised, invoked,
          provider, logical, request, wire, response,
          email_pc, email_args, service, initialized, http_error_bound,
          email_exc, email_out,
          runs>>

\* the state of one adapter call (self.provider, the request sent to the client, the
\* client's response, the dict the adapter returns); logical is the provider's answer
\* before it is encoded in either wire format
adapter_vars == <<provider, logical, request, wire, response>>

\* the variables of one process_query run, history variables included
run_vars == <<pc, max_iterations, top_k, chat_history, search_results, rag_context,
              messages, iteration, final_response, pending, idx, tool_calls_made,
              tool_results, result, fault, provider_calls, turns, completed,
              retrieval_failed, sent, provider_raised, invoked>>

\* the email tool: self._service and self._initialized of the module's email_tool,
\* and the position, arguments, local HttpError binding, exception in flight and
\* returned dict of one execute call
email_vars == <<email_pc, email_args, service, initialized, http_error_bound,
                email_exc, email_out>>

\* the local variables of each of two process_query runs in flight on agent_service
pair_vars == <<runs>>

\* the default of process_query's top_k
DefaultTopK == 6

\* chat_history entries: a mapping with optional keys, or something without .get
HistUser == [is_dict |-> TRUE, has_role |-> TRUE, role |-> "user",
             has_content |-> TRUE, content |-> <<"hi">>]
HistAssistant == [is_dict |-> TRUE, has_role |-> TRUE, role |-> "assistant",
                  has_content |-> TRUE, content |-> <<"hello">>]
HistBare == [is_dict |-> TRUE, has_role |-> FALSE, role |-> "",
             has_content |-> FALSE, content |-> <<>>]
HistNotDict == [is_dict |-> FALSE, has_role |-> FALSE, role |-> "",
                has_content |-> FALSE, content |-> <<>>]
NoHistory == [isNone |-> TRUE, v |-> <<>>]
HistoryPool ==
    { NoHistory,
      [isNone |-> FALSE, v |-> <<HistAssistant, HistBare>>],
      [isNone |-> FALSE, v |-> <<HistUser, HistNotDict>>] }

\* chunk ids the retrieval client returns
IdA == <<"a">>
IdA1 == <<"a", "#", "1">>
IdB == <<"b">>

\* what db.vector_search returns in a full run
RunResults ==
    { <<>>, <<Block(IdA)>>, <<Block(IdA), Block(IdA1), Block(IdB)>>,
      <<Block(IdB), BlockNoId>> }

\* tool calls a provider response may carry
CallCalendar == [id |-> "call_1",
                 function |-> [name |-> "create_calendar_event", arguments |-> "{}"]]
CallEmail == [id |-> "call_2",
              function |-> [name |-> "send_email", arguments |-> "{}"]]
CallNotObject == [id |-> "call_3",
                  function |-> [name |-> "send_email", arguments |-> "[]"]]
CallBadJson == [id |-> "call_4",
                function |-> [name |-> "send_email", arguments |-> "{"]]
ToolCallPool == {CallCalendar, CallEmail, CallNotObject, CallBadJson}

\* non-empty tool call lists of at most MaxCalls calls
ToolCallLists ==
    UNION { [1..n -> ToolCallPool] : n \in 1..MaxCalls }

NoCalls == [isNone |-> TRUE, v |-> <<>>]

\* the text of a provider response
RunContents ==
    { NoneText, SomeText(<<>>), SomeText(<<"o", "k">>),
      SomeText(<<"[", "a", "]", "[", "z", "]", "[", "a", "]">>) }

\* what _call_llm_with_tools returns: {content, tool_calls}
ProviderResponses ==
    { [content |-> c, tool_calls |-> NoCalls] : c \in RunContents }
    \cup
    { [content |-> c, tool_calls |-> [isNone |-> FALSE, v |-> tcs]] :
        c \in {NoneText, SomeText(<<"o", "k">>)}, tcs \in ToolCallLists }

\* str(e) of what a provider call raises
ProviderErrors == {"", "auth failed"}

\* what tool_registry.execute_tool returns
RegistryOutcomes ==
    { SuccessResponse(SomeStr("event created")),
      ErrorResponse(SomeStr("invalid address")) }

\* ---------------------------------------------------------------- results
\* the fixed fallback of the normal return
FallbackText == <<"I processed your request.">>
ErrorPrefix == <<"I encountered an error processing your request: ">>

RECURSIVE MapSeq(_, _, _)
\* [f(x) for x in s], with f one of the projections below
MapSeq(s, field, i) ==
    IF i > Len(s) THEN <<>>
    ELSE <<(CASE field = "tool_name" -> s[i].tool_name
              [] field = "chunk_id" -> s[i].chunk_id)>>
         \o MapSeq(s, field, i + 1)

ToolNames(tcm) == MapSeq(tcm, "tool_name", 1)
ChunkIds(blocks) == MapSeq(blocks, "chunk_id", 1)

\* the value of debug.iterations in the except branch
ErrorIterations == 0

\* an except branch that reports the retrieved context as the normal return does
ErrorResultWithContext(tcm, trs, msg) ==
    [text |-> ErrorPrefix \o <<msg>>,
     tool_calls |-> tcm,
     tool_results |-> trs,
     citations |-> <<>>,
     debug |-> [rag_context_used |-> Len(rag_context) > 0,
                rag_chunk_ids |-> ChunkIds(rag_context),
                tools_called |-> ToolNames(tcm),
                iterations |-> ErrorIterations,
                error |-> SomeStr(msg)]]

\* an except branch whose text is str(e) alone
ErrorResultBareMessage(tcm, trs, msg) ==
    [text |-> IF msg = "" THEN <<>> ELSE <<msg>>,
     tool_calls |-> tcm,
     tool_results |-> trs,
     citations |-> <<>>,
     debug |-> [rag_context_used |-> FALSE,
                rag_chunk_ids |-> <<>>,
                tools_called |-> ToolNames(tcm),
                iterations |-> ErrorIterations,
                error |-> SomeStr(msg)]]

\* the dict returned by the except branch, for str(e) = msg
ErrorResult(tcm, trs, msg) ==
    [text |-> ErrorPrefix \o <<msg>>,
     tool_calls |-> tcm,
     tool_results |-> trs,
     citations |-> <<>>,
     debug |-> [rag_context_used |-> FALSE,
                rag_chunk_ids |-> <<>>,
                tools_called |-> ToolNames(tcm),
                iterations |-> ErrorIterations,
                error |-> SomeStr(msg)]]

\* a return that uses final_response as it is, without the fallback
NormalResultNoFallback(fr, ctx, tcm, trs, it) ==
    [text |-> fr.v,
     tool_calls |-> tcm,
     tool_results |-> trs,
     citations |-> ExtractCitations(IF Truthy(fr) THEN fr.v ELSE <<>>, ctx),
     debug |-> [rag_context_used |-> Len(ctx) > 0,
                rag_chunk_ids |-> ChunkIds(ctx),
                tools_called |-> ToolNames(tcm),
                iterations |-> it,
                error |-> NoneStr]]

\* the dict returned at the end of the try block
NormalResult(fr, ctx, tcm, trs, it) ==
    [text |-> IF Truthy(fr) THEN fr.v ELSE FallbackText,
     tool_calls |-> tcm,
     tool_results |-> trs,
     citations |-> ExtractCitations(IF Truthy(fr) THEN fr.v ELSE <<>>, ctx),
     debug |-> [rag_context_used |-> Len(ctx) > 0,
                rag_chunk_ids |-> ChunkIds(ctx),
                tools_called |-> ToolNames(tcm),
                iterations |-> it,
                error |-> NoneStr]]

\* nothing returned yet
NoResult ==
    [text |-> <<>>, tool_calls |-> <<>>, tool_results |-> <<>>, citations |-> <<>>,
     debug |-> [rag_context_used |-> FALSE, rag_chunk_ids |-> <<>>,
                tools_called |-> <<>>, iterations |-> 0, error |-> NoneStr]]

\* ---------------------------------------------------------------- prompt builder
RECURSIVE ContextParts(_, _)
\* "\n\n".join(f"[{chunk_id}] {text}" for block in rag_context)
ContextParts(ctx, i) ==
    IF i > Len(ctx) THEN <<>>
    ELSE (IF i > 1 THEN <<"\n\n">> ELSE <<>>)
         \o <<"[">> \o (IF ctx[i].has_id THEN ctx[i].chunk_id ELSE <<"unknown">>)
         \o <<"]">> \o ContextParts(ctx, i + 1)

ContextStr(ctx) ==
    IF Len(ctx) > 0 THEN ContextParts(ctx, 1)
    ELSE <<"No relevant context found in knowledge base.">>

Msg(role, content) ==
    [role |-> role, content |-> content, tool_calls |-> <<>>, tool_call_id |-> ""]

\* a builder that keeps the last two history entries only
HistoryMessagesLastTwo(h, i) ==
    LET first == IF Len(h) > 2 THEN Len(h) - 1 ELSE 1
    IN [k \in 1..(Len(h) + 1 - first) |->
           Msg(IF h[first + k - 1].has_role THEN h[first + k - 1].role ELSE "user",
               SomeText(IF h[first + k - 1].has_content
                        THEN h[first + k - 1].content ELSE <<>>))]

RECURSIVE HistoryMessages(_, _)
\* {"role": msg.get("role", "user"), "content": msg.get("content", "")} per entry
HistoryMessages(h, i) ==
    IF i > Len(h) THEN <<>>
    ELSE <<Msg(IF h[i].has_role THEN h[i].role ELSE "user",
               SomeText(IF h[i].has_content THEN h[i].content ELSE <<>>))>>
         \o HistoryMessages(h, i + 1)

\* msg.get raises AttributeError on an entry that is no mapping
HistoryRaises(hist) ==
    ~hist.isNone /\ \E i \in DOMAIN hist.v : ~hist.v[i].is_dict

\* _build_initial_messages(query, rag_context, chat_history), when it does not raise
BuildMessages(ctx, hist) ==
    <<Msg("system", SomeText(<<"system prompt">> \o ContextStr(ctx)))>>
    \o (IF hist.isNone THEN <<>> ELSE HistoryMessages(hist.v, 1))
    \o <<Msg("user", SomeText(<<"query">>))>>

\* the assistant message appended for one tool call
AssistantMsg(tc) ==
    [role |-> "assistant", content |-> NoneText,
     tool_calls |-> <<[id |-> tc.id, type |-> "function", function |-> tc.function]>>,
     tool_call_id |-> ""]

\* a tool message that does not name the call it answers
ToolMsgNoCallId(tc, out) ==
    [role |-> "tool", content |-> SomeText(<<JsonDumps(out)>>),
     tool_calls |-> <<>>, tool_call_id |-> ""]

\* the tool message appended for one registry outcome
ToolMsg(tc, out) ==
    [role |-> "tool", content |-> SomeText(<<JsonDumps(out)>>),
     tool_calls |-> <<>>, tool_call_id |-> tc.id]

\* ---------------------------------------------------------------- provider adapters
\* TOOL_DEFINITIONS: the two tool descriptors, each schema a single token
CalendarTool ==
    [type |-> "function",
     function |-> [name |-> "create_calendar_event",
                   description |-> "Create a calendar event/meeting on Google Calendar.",
                   parameters |-> "calendar schema"]]
EmailTool ==
    [type |-> "function",
     function |-> [name |-> "send_email",
                   description |-> "Send an email to a recipient.",
                   parameters |-> "email schema"]]
TOOL_DEFINITIONS == <<CalendarTool, EmailTool>>

\* values of the adapter variables while no adapter call is looked at
NoLogical == [text |-> NoneText, calls |-> <<>>]
NoRequest == [system |-> NoneText, messages |-> <<>>, tools |-> <<>>]
NoWire == [content |-> NoneText, tool_calls |-> [isNone |-> TRUE, v |-> <<>>], blocks |-> <<>>]
NoResponse == [content |-> NoneText, tool_calls |-> [isNone |-> TRUE, v |-> <<>>]]

\* self.provider = settings.ai_provider, "openai" unless configured otherwise
AdapterIdle ==
    /\ provider = "openai"
    /\ logical = NoLogical
    /\ request = NoRequest
    /\ wire = NoWire
    /\ response = NoResponse

\* the keyword arguments of client.chat.completions.create that depend on the run
OpenAIRequest(msgs) ==
    [system |-> NoneText, messages |-> msgs, tools |-> TOOL_DEFINITIONS]

RECURSIVE OpenAIToolCalls(_, _)
\* [{id, function: {name, arguments}} for tc in (message.tool_calls or [])]
OpenAIToolCalls(tcs, i) ==
    IF i > Len(tcs) THEN <<>>
    ELSE <<[id |-> tcs[i].id,
            function |-> [name |-> tcs[i].function.name,
                          arguments |-> tcs[i].function.arguments]]>>
         \o OpenAIToolCalls(tcs, i + 1)

\* a result whose text is '' when the message has none
ParseOpenAIEmptyText(m) ==
    [content |-> IF m.content.isNone THEN SomeText(<<>>) ELSE m.content,
     tool_calls |-> IF ~m.tool_calls.isNone /\ Len(m.tool_calls.v) > 0
                    THEN [isNone |-> FALSE, v |-> OpenAIToolCalls(m.tool_calls.v, 1)]
                    ELSE [isNone |-> TRUE, v |-> <<>>]]

\* the dict _call_openai returns for response.choices[0].message = m
ParseOpenAI(m) ==
    [content |-> m.content,
     tool_calls |-> IF ~m.tool_calls.isNone /\ Len(m.tool_calls.v) > 0
                    THEN [isNone |-> FALSE, v |-> OpenAIToolCalls(m.tool_calls.v, 1)]
                    ELSE [isNone |-> TRUE, v |-> <<>>]]

RECURSIVE SystemContent(_, _, _)
\* system_content = "" ; for msg in messages: if role == "system": system_content = content
SystemContent(msgs, i, acc) ==
    IF i > Len(msgs) THEN acc
    ELSE SystemContent(msgs, i + 1,
                       IF msgs[i].role = "system" THEN msgs[i].content ELSE acc)

\* a split that leaves the system message in the message array
UserMessagesAll(msgs, i) == SubSeq(msgs, i, Len(msgs))

RECURSIVE UserMessages(_, _)
\* user_messages: every message whose role is not "system", appended in order
UserMessages(msgs, i) ==
    IF i > Len(msgs) THEN <<>>
    ELSE (IF msgs[i].role = "system" THEN <<>> ELSE <<msgs[i]>>)
         \o UserMessages(msgs, i + 1)

RECURSIVE AnthropicTools(_, _)
\* [{name, description, input_schema: t["function"]["parameters"]} for t in TOOL_DEFINITIONS]
AnthropicTools(defs, i) ==
    IF i > Len(defs) THEN <<>>
    ELSE <<[name |-> defs[i].function.name,
            description |-> defs[i].function.description,
            input_schema |-> defs[i].function.parameters]>>
         \o AnthropicTools(defs, i + 1)

\* the keyword arguments of client.messages.create that depend on the run
AnthropicRequest(msgs) ==
    [system |-> SystemContent(msgs, 1, SomeText(<<>>)),
     messages |-> UserMessages(msgs, 1),
     tools |-> AnthropicTools(TOOL_DEFINITIONS, 1)]

\* the input of a tool_use block: a mapping, here a sequence of <<key, value>> pairs
InputEmpty == <<>>
InputTo == << <<"to", "a@b.com">> >>
InputToSubject == << <<"to", "a@b.com">>, <<"subject", "hi">> >>

RECURSIVE DumpsPairs(_, _)
\* the members of json.dumps(obj), separated by ', ', each key: value
DumpsPairs(obj, i) ==
    IF i > Len(obj) THEN ""
    ELSE (IF i > 1 THEN ", " ELSE "")
         \o "\"" \o obj[i][1] \o "\": \"" \o obj[i][2] \o "\""
         \o DumpsPairs(obj, i + 1)

\* json.dumps(block.input)
DumpsInput(obj) == "{" \o DumpsPairs(obj, 1) \o "}"

\* the blocks of an Anthropic response
TextBlock(t) ==
    [type |-> "text", text |-> t, id |-> "", name |-> "", input |-> <<>>]
ToolUseBlock(c) ==
    [type |-> "tool_use", text |-> <<>>, id |-> c.id, name |-> c.name, input |-> c.input]
\* a block of another type (extended thinking), which also carries a text
ThinkingBlock ==
    [type |-> "thinking", text |-> <<"h", "m">>, id |-> "", name |-> "", input |-> <<>>]

RECURSIVE AnthropicLoopFirstText(_, _, _, _)
\* a loop that keeps the first text block it meets
AnthropicLoopFirstText(blocks, i, content, tool_calls) ==
    IF i > Len(blocks) THEN [content |-> content, tool_calls |-> tool_calls]
    ELSE IF blocks[i].type = "text"
    THEN AnthropicLoopFirstText(blocks, i + 1,
             IF content = SomeText(<<>>) THEN SomeText(blocks[i].text) ELSE content,
             tool_calls)
    ELSE IF blocks[i].type = "tool_use"
    THEN AnthropicLoopFirstText(blocks, i + 1, content,
             Append(tool_calls,
                    [id |-> blocks[i].id,
                     function |-> [name |-> blocks[i].name,
                                   arguments |-> DumpsInput(blocks[i].input)]]))
    ELSE AnthropicLoopFirstText(blocks, i + 1, content, tool_calls)

RECURSIVE AnthropicLoop(_, _, _, _)
\* for block in response.content: a text block sets content, a tool_use block is appended
AnthropicLoop(blocks, i, content, tool_calls) ==
    IF i > Len(blocks) THEN [content |-> content, tool_calls |-> tool_calls]
    ELSE IF blocks[i].type = "text"
    THEN AnthropicLoop(blocks, i + 1, SomeText(blocks[i].text), tool_calls)
    ELSE IF blocks[i].type = "tool_use"
    THEN AnthropicLoop(blocks, i + 1, content,
             Append(tool_calls,
                    [id |-> blocks[i].id,
                     function |-> [name |-> blocks[i].name,
                                   arguments |-> DumpsInput(blocks[i].input)]]))
    ELSE AnthropicLoop(blocks, i + 1, content, tool_calls)

\* a result that returns the list of tool calls even when it is empty
ParseAnthropicKeepList(blocks) ==
    LET r == AnthropicLoop(blocks, 1, SomeText(<<>>), <<>>)
    IN [content |-> r.content, tool_calls |-> [isNone |-> FALSE, v |-> r.tool_calls]]

\* the dict _call_anthropic returns for response.content = blocks
ParseAnthropic(blocks) ==
    LET r == AnthropicLoop(blocks, 1, SomeText(<<>>), <<>>)
    IN [content |-> r.content,
        tool_calls |-> IF Len(r.tool_calls) > 0
                       THEN [isNone |-> FALSE, v |-> r.tool_calls]
                       ELSE [isNone |-> TRUE, v |-> <<>>]]

\* ---------------------------------------------------------------- EmailTool
\* no exception in flight, nothing returned yet
NoException == [type |-> "", msg |-> ""]
NoOutcome == [success |-> FALSE, result |-> NoneStr, error |-> NoneStr]

\* __init__: self._service = None, self._initialized = False; no call in progress
EmailIdle ==
    /\ email_pc = "idle"
    /\ email_args = [to |-> NoneStr, subject |-> NoneStr, body |-> NoneStr]
    /\ service = NoneStr
    /\ initialized = FALSE
    /\ http_error_bound = FALSE
    /\ email_exc = NoException
    /\ email_out = NoOutcome

\* no process_query run of the two-run specification is in flight
PairIdle == runs = <<>>

\* the arguments of a call: each of to, subject, body a string (possibly empty) or None
EmailArguments ==
    [to : {NoneStr, SomeStr(""), SomeStr("a@b.com")},
     subject : {NoneStr, SomeStr(""), SomeStr("Hello")},
     body : {NoneStr, SomeStr(""), SomeStr("See you at 2pm")}]

\* what the first import of the try block can raise: the package is missing
\* (ModuleNotFoundError is an ImportError) or its import fails with another exception
ImportFaults ==
    { [type |-> "ImportError", msg |-> "No module named 'googleapiclient'"],
      [type |-> "Exception", msg |-> "module 'httplib2' has no attribute 'Http'"] }

\* what the import of the settings and get_settings() can raise
SettingsFaults ==
    { [type |-> "Exception", msg |-> "google_calendar_email: field required"] }

\* what the initialisation in _get_service can raise (each is re-raised to execute)
ServiceFaults ==
    { [type |-> "ImportError", msg |-> "No module named 'google.oauth2'"],
      [type |-> "FileNotFoundError", msg |-> "credentials/service_account.json"],
      [type |-> "Exception", msg |-> "invalid_grant"] }

\* what building and sending the message can raise
SendFaults ==
    { [type |-> "HttpError", msg |-> "403 Forbidden"],
      [type |-> "Exception", msg |-> "Header values may not contain linefeed"] }

\* isinstance(e, cls): every modelled exception is an Exception
IsInstance(e, cls) == cls = "Exception" \/ e.type = cls

\* the result dict of a sent message
SentMessage(args) == SomeStr("sent to " \o args.to.v \o ": " \o args.subject.v)

\* the call and the validation in front of the try block
EmailExecute ==
    /\ email_pc \in {"idle", "returned", "raised"}
    /\ \E args \in EmailArguments :
          LET v == ValidateParams(<<"to", "subject", "body">>, args)
          IN /\ email_args' = args
             /\ IF ~v.is_valid
                THEN /\ email_out' = ErrorResponse(SomeStr(
                            "Missing required parameters: " \o Join(v.missing, 1)))
                     /\ email_pc' = "returned"
                ELSE /\ email_out' = NoOutcome
                     /\ email_pc' = "importing"
    /\ http_error_bound' = FALSE
    /\ email_exc' = NoException
    /\ UNCHANGED <<service, initialized, run_vars, adapter_vars, pair_vars>>

\* from googleapiclient.errors import HttpError; the settings import; get_settings()
EmailImports ==
    /\ email_pc = "importing"
    /\ \/ \E e \in ImportFaults :
            /\ email_exc' = e
            /\ email_pc' = "handling"
            /\ UNCHANGED http_error_bound
       \/ \E e \in SettingsFaults :
            /\ http_error_bound' = TRUE
            /\ email_exc' = e
            /\ email_pc' = "handling"
       \/ /\ http_error_bound' = TRUE
          /\ email_pc' = "initialising"
          /\ UNCHANGED email_exc
    /\ UNCHANGED <<email_args, service, initialized, email_out,
                   run_vars, adapter_vars, pair_vars>>

\* the objects build('gmail', 'v1', credentials=...) can return: every call of build
\* makes a new one
BuiltServices == {"gmail v1 (first build)", "gmail v1 (later build)"}

\* a _get_service that initialises on every call
NeedsInitAlways(flag) == flag \/ ~flag

\* if not self._initialized
NeedsInit(flag) == ~flag

\* service = self._get_service()
EmailGetService ==
    /\ email_pc = "initialising"
    /\ IF ~NeedsInit(initialized)
       THEN /\ email_pc' = "sending"
            /\ UNCHANGED <<service, initialized, email_exc>>
       ELSE \/ /\ \E s \in BuiltServices : service' = SomeStr(s)
               /\ initialized' = TRUE
               /\ email_pc' = "sending"
               /\ UNCHANGED email_exc
            \/ \E e \in ServiceFaults :
                 /\ email_exc' = e
                 /\ email_pc' = "handling"
                 /\ UNCHANGED <<service, initialized>>
    /\ UNCHANGED <<email_args, http_error_bound, email_out,
                   run_vars, adapter_vars, pair_vars>>

\* the MIME message, service.users().messages().send(...).execute(), the return
EmailSend ==
    /\ email_pc = "sending"
    /\ \/ /\ email_out' = SuccessResponse(SentMessage(email_args))
          /\ email_pc' = "returned"
          /\ UNCHANGED email_exc
       \/ \E e \in SendFaults :
            /\ email_exc' = e
            /\ email_pc' = "handling"
            /\ UNCHANGED email_out
    /\ UNCHANGED <<email_args, service, initialized, http_error_bound,
                   run_vars, adapter_vars, pair_vars>>

\* the three except clauses of execute, tried in order; the second evaluates the
\* local name HttpError, which is unbound when the import that binds it raised
EmailExcept ==
    /\ email_pc = "handling"
    /\ IF IsInstance(email_exc, "ImportError")
       THEN /\ email_out' = ErrorResponse(SomeStr(
                   "Google API packages not installed. Run: pip install "
                   \o "google-api-python-client google-auth. Error: " \o email_exc.msg))
            /\ email_pc' = "returned"
            /\ UNCHANGED email_exc
       ELSE IF ~http_error_bound
       THEN /\ email_exc' = [type |-> "UnboundLocalError",
                             msg |-> "local variable 'HttpError' referenced before assignment"]
            /\ email_pc' = "raised"
            /\ UNCHANGED email_out
       ELSE IF IsInstance(email_exc, "HttpError")
       THEN /\ email_out' = ErrorResponse(SomeStr("Gmail API error: " \o email_exc.msg))
            /\ email_pc' = "returned"
            /\ UNCHANGED email_exc
       ELSE /\ email_out' = ErrorResponse(SomeStr("Failed to send email: " \o email_exc.msg))
            /\ email_pc' = "returned"
            /\ UNCHANGED email_exc
    /\ UNCHANGED <<email_args, service, initialized, http_error_bound,
                   run_vars, adapter_vars, pair_vars>>

\* ---------------------------------------------------------------- process_query
\* History variables (not program state): provider_calls counts the provider
\* calls made, turns lists the tool calls of each provider response, completed
\* lists the registry returns, retrieval_failed records a caught retrieval fault,
\* sent lists the message sequence passed to each provider call, provider_raised
\* records that a provider call raised.

InitRun ==
    /\ pc = "embedding"
    /\ search_results = <<>>
    /\ rag_context = <<>>
    /\ messages = <<>>
    /\ iteration = 0
    /\ final_response = NoneText
    /\ pending = <<>>
    /\ idx = 0
    /\ tool_calls_made = <<>>
    /\ tool_results = <<>>
    /\ result = NoResult
    /\ fault = NoneStr
    /\ provider_calls = 0
    /\ turns = <<>>
    /\ completed = <<>>
    /\ retrieval_failed = FALSE
    /\ sent = <<>>
    /\ provider_raised = FALSE
    /\ invoked = <<>>
    /\ AdapterIdle
    /\ EmailIdle

Init ==
    /\ max_iterations \in -1..MaxIter
    /\ top_k = DefaultTopK
    /\ chat_history \in HistoryPool
    /\ InitRun
    /\ PairIdle

\* an exception raised inside the try block of process_query
Raise(msg) ==
    /\ fault' = SomeStr(msg)
    /\ pc' = "raised"

\* a retrieval fault that leaves process_query
RetrievalPropagates ==
    /\ rag_context' = <<>>
    /\ retrieval_failed' = TRUE
    /\ pc' = "propagated"

\* the except branch of _get_rag_context: log and return []
RetrievalFails ==
    /\ rag_context' = <<>>
    /\ retrieval_failed' = TRUE
    /\ pc' = "prompting"

\* await embedding_service.embed_query(query)
EmbedQuery ==
    /\ pc = "embedding"
    /\ invoked' = Append(invoked, "embed")
    /\ \/ /\ pc' = "searching"
          /\ UNCHANGED <<rag_context, retrieval_failed>>
       \/ RetrievalFails
    /\ UNCHANGED <<max_iterations, top_k, chat_history, search_results, messages,
                   iteration, final_response, pending, idx, tool_calls_made,
                   tool_results, result, fault, provider_calls, turns, completed,
                   sent, provider_raised, adapter_vars, email_vars, pair_vars>>

\* await db.vector_search(query_embedding, top_k), then the deduplication loop
SearchStep(candidates) ==
    /\ pc = "searching"
    /\ invoked' = Append(invoked, "search")
    /\ \/ \E results \in candidates :
            /\ search_results' = results
            /\ rag_context' = DedupContext(results)
            /\ pc' = "prompting"
            /\ UNCHANGED retrieval_failed
       \/ RetrievalFails /\ UNCHANGED search_results
    /\ UNCHANGED <<max_iterations, top_k, chat_history, messages, iteration,
                   final_response, pending, idx, tool_calls_made, tool_results,
                   result, fault, provider_calls, turns, completed,
                   sent, provider_raised, adapter_vars, email_vars, pair_vars>>

VectorSearch == SearchStep(RunResults)

\* messages = self._build_initial_messages(...); iteration = 0; final_response = None
BuildInitialMessages ==
    /\ pc = "prompting"
    /\ invoked' = Append(invoked, "build")
    /\ \/ /\ HistoryRaises(chat_history)
          /\ Raise("'str' object has no attribute 'get'")
          /\ UNCHANGED messages
       \/ /\ ~HistoryRaises(chat_history)
          /\ messages' = BuildMessages(rag_context, chat_history)
          /\ pc' = "calling"
          /\ UNCHANGED fault
    /\ UNCHANGED <<max_iterations, top_k, chat_history, search_results, rag_context, iteration,
                   final_response, pending, idx, tool_calls_made, tool_results,
                   result, provider_calls, turns, completed, retrieval_failed, sent, provider_raised,
                   adapter_vars, email_vars, pair_vars>>

\* a loop whose body runs once before the condition is looked at
LoopGuardAtLeastOnce(it, mx) == it < mx \/ it < 1

\* the loop condition off by one
LoopGuardInclusive(it, mx) == it <= mx

\* while iteration < max_iterations
LoopGuard(it, mx) == it < mx

\* a test for the key instead of its value: 'tool_calls' in response
HasToolCallsKeyPresent(r) == DOMAIN r.tool_calls = {"isNone", "v"}

\* response.get('tool_calls') is truthy
HasToolCalls(r) == ~r.tool_calls.isNone /\ Len(r.tool_calls.v) > 0

\* an else branch without its break: the loop goes on to the next provider call
AfterResponseNoBreak(r) == IF HasToolCalls(r) THEN "acting" ELSE "calling"

\* if response.get('tool_calls'): the for loop; else: final_response = ...; break
AfterResponse(r) == IF HasToolCalls(r) THEN "acting" ELSE "finishing"

\* a provider fault that is swallowed, the loop going on to call again
ProviderFaultRetried(e) ==
    /\ provider_raised' = TRUE
    /\ pc' = "calling"
    /\ UNCHANGED fault

\* await self._call_llm_with_tools(messages) raises: nothing in the loop catches it
ProviderFault(e) ==
    /\ provider_raised' = TRUE
    /\ Raise(e)

\* one pass of the loop head: iteration += 1; response = await _call_llm_with_tools
CallLLM ==
    /\ pc = "calling"
    /\ invoked' = Append(invoked, "provider")
    /\ LoopGuard(iteration, max_iterations)
    /\ iteration' = iteration + 1
    /\ provider_calls' = provider_calls + 1
    /\ sent' = Append(sent, messages)
    /\ \/ \E e \in ProviderErrors :
            /\ ProviderFault(e)
            /\ UNCHANGED <<final_response, pending, idx, turns>>
       \/ \E r \in ProviderResponses :
            \* the provider requests at most MaxTotal tool calls in a run
            /\ Len(tool_calls_made) + Len(r.tool_calls.v) <= MaxTotal
            /\ turns' = Append(turns, IF HasToolCalls(r) THEN r.tool_calls.v ELSE <<>>)
            /\ UNCHANGED <<fault, provider_raised>>
            /\ pc' = AfterResponse(r)
            /\ IF HasToolCalls(r)
               THEN /\ pending' = r.tool_calls.v
                    /\ idx' = 1
                    /\ UNCHANGED final_response
               ELSE /\ final_response' = r.content
                    /\ UNCHANGED <<pending, idx>>
    /\ UNCHANGED <<max_iterations, top_k, chat_history, search_results, rag_context, messages,
                   tool_calls_made, tool_results, result, completed,
                   retrieval_failed, adapter_vars, email_vars, pair_vars>>

\* the loop condition fails: fall through to step 4
LoopExit ==
    /\ pc = "calling"
    /\ ~LoopGuard(iteration, max_iterations)
    /\ pc' = "finishing"
    /\ UNCHANGED <<max_iterations, top_k, chat_history, search_results, rag_context, messages,
                   iteration, final_response, pending, idx, tool_calls_made,
                   tool_results, result, fault, provider_calls, turns, completed,
                   retrieval_failed, sent, provider_raised,
                   invoked, adapter_vars, email_vars, pair_vars>>

\* iterating the response's tool calls from the last to the first
PickCallReversed(calls, i) == calls[Len(calls) + 1 - i]

\* for tool_call in response['tool_calls']: the call taken at position i
PickCall(calls, i) == calls[i]

\* the entry appended to tool_calls_made
Invocation(tc, args) ==
    [tool_name |-> tc.function.name, arguments |-> args, call_id |-> tc.id]

\* the loop body up to the await: json.loads, tool_calls_made.append, **tool_args
RecordToolCall ==
    /\ pc = "acting"
    /\ LET tc == PickCall(pending, idx)
           parsed == JsonLoads(tc.function.arguments)
       IN \/ /\ ~parsed.ok
             /\ Raise("Expecting property name enclosed in double quotes")
             /\ UNCHANGED tool_calls_made
          \/ /\ parsed.ok
             /\ tool_calls_made' = Append(tool_calls_made, Invocation(tc, parsed))
             /\ IF IsMapping(parsed)
                THEN pc' = "dispatching" /\ UNCHANGED fault
                ELSE Raise("argument after ** must be a mapping, not list")
    /\ UNCHANGED <<max_iterations, top_k, chat_history, search_results, rag_context, messages,
                   iteration, final_response, pending, idx, tool_results, result,
                   provider_calls, turns, completed, retrieval_failed, sent, provider_raised,
                   invoked, adapter_vars, email_vars, pair_vars>>

\* the entry appended to tool_results
Outcome(tc, out) ==
    [call_id |-> tc.id, tool_name |-> tc.function.name,
     success |-> out.success, result |-> out.result, error |-> out.error]

\* a loop that stops at the first failed outcome
AfterToolStopOnFailure(out, i, n) ==
    IF ~out.success THEN "finishing" ELSE IF i < n THEN "acting" ELSE "calling"

\* a loop that retrieves the context again before each further provider call
AfterToolRetrieveAgain(out, i, n) == IF i < n THEN "acting" ELSE "embedding"

\* where the loop goes after call i of n, whatever its outcome
AfterTool(out, i, n) == IF i < n THEN "acting" ELSE "calling"

\* the two messages put in front of the conversation
PrependToolMessages(msgs, tc, out) == <<AssistantMsg(tc), ToolMsg(tc, out)>> \o msgs

\* the tool message alone, without the assistant message that announces the call
AppendToolMessageOnly(msgs, tc, out) == Append(msgs, ToolMsg(tc, out))

\* messages.append(assistant message); messages.append(tool message)
AppendToolMessages(msgs, tc, out) == msgs \o <<AssistantMsg(tc), ToolMsg(tc, out)>>

\* the registry returns: tool_results.append and the two messages.append
ExecuteTool ==
    /\ pc = "dispatching"
    /\ invoked' = Append(invoked, "registry")
    /\ LET tc == PickCall(pending, idx)
       IN \E out \in RegistryOutcomes :
            /\ tool_results' = Append(tool_results, Outcome(tc, out))
            /\ messages' = AppendToolMessages(messages, tc, out)
            /\ completed' = Append(completed,
                   [turn |-> iteration, pos |-> idx, call |-> tc, outcome |-> out])
            /\ pc' = AfterTool(out, idx, Len(pending))
    /\ idx' = idx + 1
    /\ UNCHANGED <<max_iterations, top_k, chat_history, search_results, rag_context, iteration,
                   final_response, pending, tool_calls_made, result, fault,
                   provider_calls, turns, retrieval_failed,
                   sent, provider_raised, adapter_vars, email_vars, pair_vars>>

\* step 4 and the return of the try block
Finish ==
    /\ pc = "finishing"
    /\ \/ /\ CitationsRaise(rag_context)
          /\ Raise("'chunk_id'")
          /\ UNCHANGED result
       \/ /\ ~CitationsRaise(rag_context)
          /\ result' = NormalResult(final_response, rag_context, tool_calls_made,
                                    tool_results, iteration)
          /\ pc' = "done"
          /\ UNCHANGED fault
    /\ UNCHANGED <<max_iterations, top_k, chat_history, search_results, rag_context, messages,
                   iteration, final_response, pending, idx, tool_calls_made,
                   tool_results, provider_calls, turns, completed,
                   retrieval_failed, sent, provider_raised,
                   invoked, adapter_vars, email_vars, pair_vars>>

\* an except clause that names ValueError only (json.JSONDecodeError is one)
CaughtValueErrorOnly(f) == f.v = "Expecting property name enclosed in double quotes"

\* except Exception as e: every fault raised in the try block is an Exception
Caught(f) == TRUE

\* the except branch of process_query
HandleException ==
    /\ pc = "raised"
    /\ IF Caught(fault)
       THEN /\ result' = ErrorResult(tool_calls_made, tool_results, fault.v)
            /\ pc' = "done"
       ELSE /\ pc' = "propagated"
            /\ UNCHANGED result
    /\ UNCHANGED <<max_iterations, top_k, chat_history, search_results, rag_context, messages,
                   iteration, final_response, pending, idx, tool_calls_made,
                   tool_results, fault, provider_calls, turns, completed,
                   retrieval_failed, sent, provider_raised,
                   invoked, adapter_vars, email_vars, pair_vars>>

Next ==
    \/ EmbedQuery
    \/ VectorSearch
    \/ BuildInitialMessages
    \/ CallLLM
    \/ LoopExit
    \/ RecordToolCall
    \/ ExecuteTool
    \/ Finish
    \/ HandleException

Spec == Init /\ [][Next]_vars

\* ---------------------------------------------------------------- the assembler alone
IdHashB == <<"#", "b">>
IdC == <<"c">>
IdD == <<"d">>
IdE == <<"e">>

\* candidates of the retrieval client: six base prefixes, two of them shared
BlockPool ==
    { Block(IdA), Block(IdA1), Block(IdB), Block(IdHashB), Block(IdC), Block(IdD),
      Block(IdE), BlockNoId }

\* every candidate sequence of at most MaxCand blocks
AllResults == UNION { [1..n -> BlockPool] : n \in 0..MaxCand }

InitRag ==
    /\ max_iterations = 1
    /\ top_k \in {1, DefaultTopK}
    /\ chat_history = NoHistory
    /\ InitRun
    /\ PairIdle

VectorSearchAll == SearchStep(AllResults)

NextRag ==
    \/ EmbedQuery
    \/ VectorSearchAll

SpecRag == InitRag /\ [][NextRag]_vars

\* ---------------------------------------------------------------- the extractor alone
RECURSIVE SeqsUpTo(_, _)
\* every sequence over alphabet of length at most n
SeqsUpTo(alphabet, n) ==
    IF n = 0 THEN {<<>>}
    ELSE LET shorter == SeqsUpTo(alphabet, n - 1)
         IN shorter \cup {Append(t, c) : t \in shorter, c \in alphabet}

TextAlphabet == {"[", "]", "a", "b"}

IdAB == <<"a", "b">>
IdBracketA == <<"[", "a">>

\* "[b][a][b][ab]" and "[[b][a][b]"
LongTexts ==
    { <<"[", "b", "]", "[", "a", "]", "[", "b", "]", "[", "a", "b", "]">>,
      <<"[", "[", "b", "]", "[", "a", "]", "[", "b", "]">> }

\* contexts _get_rag_context can return
CiteContexts ==
    { <<>>, <<Block(IdA)>>, <<Block(IdB), Block(IdA)>>, <<Block(IdAB), Block(IdB)>>,
      <<Block(IdBracketA), Block(IdA1)>>, <<Block(IdA), BlockNoId>> }

\* the state after a first provider turn without tool calls
InitCite ==
    /\ max_iterations = 1
    /\ top_k = DefaultTopK
    /\ chat_history = NoHistory
    /\ pc = "finishing"
    /\ rag_context \in CiteContexts
    /\ search_results = rag_context
    /\ messages = BuildMessages(rag_context, NoHistory)
    /\ iteration = 1
    /\ final_response \in {SomeText(t) : t \in SeqsUpTo(TextAlphabet, MaxTextLen)
                                              \cup LongTexts}
    /\ pending = <<>>
    /\ idx = 0
    /\ tool_calls_made = <<>>
    /\ tool_results = <<>>
    /\ result = NoResult
    /\ fault = NoneStr
    /\ provider_calls = 1
    /\ turns = << <<>> >>
    /\ completed = <<>>
    /\ retrieval_failed = FALSE
    /\ sent = <<messages>>
    /\ provider_raised = FALSE
    /\ invoked = <<"embed", "search", "build", "provider">>
    /\ AdapterIdle
    /\ EmailIdle
    /\ PairIdle

NextCite ==
    \/ Finish
    \/ HandleException

SpecCite == InitCite /\ [][NextCite]_vars

\* ---------------------------------------------------------------- the prompt builder alone
HistUserBye == [is_dict |-> TRUE, has_role |-> TRUE, role |-> "user",
                has_content |-> TRUE, content |-> <<"bye">>]

\* entries of a caller's chat_history
HistEntries == {HistUser, HistUserBye, HistAssistant, HistBare, HistNotDict}

\* chat_history: None or a list of at most MaxHist entries
BuildHistories ==
    {NoHistory}
    \cup {[isNone |-> FALSE, v |-> h] :
              h \in UNION {[1..n -> HistEntries] : n \in 0..MaxHist}}

\* the state in which process_query calls _build_initial_messages
InitBuild ==
    /\ max_iterations = 1
    /\ top_k = DefaultTopK
    /\ chat_history \in BuildHistories
    /\ pc = "prompting"
    /\ rag_context \in {<<>>, <<Block(IdA), Block(IdB)>>}
    /\ search_results = rag_context
    /\ messages = <<>>
    /\ iteration = 0
    /\ final_response = NoneText
    /\ pending = <<>>
    /\ idx = 0
    /\ tool_calls_made = <<>>
    /\ tool_results = <<>>
    /\ result = NoResult
    /\ fault = NoneStr
    /\ provider_calls = 0
    /\ turns = <<>>
    /\ completed = <<>>
    /\ retrieval_failed = FALSE
    /\ sent = <<>>
    /\ provider_raised = FALSE
    /\ invoked = <<"embed", "search">>
    /\ AdapterIdle
    /\ EmailIdle
    /\ PairIdle

NextBuild ==
    \/ BuildInitialMessages
    \/ HandleException

SpecBuild == InitBuild /\ [][NextBuild]_vars

\* ---------------------------------------------------------------- the adapters alone
\* the tool calls of a provider's answer before it is encoded: id, tool name and
\* argument object
LogicalCalendar == [id |-> "call_1", name |-> "create_calendar_event", input |-> InputEmpty]
LogicalEmail == [id |-> "call_2", name |-> "send_email", input |-> InputTo]
LogicalEmailSubject == [id |-> "call_3", name |-> "send_email", input |-> InputToSubject]
LogicalCalls == {LogicalCalendar, LogicalEmail, LogicalEmailSubject}

\* a provider's answer: an optional text and at most MaxCalls tool calls
LogicalResponses ==
    {[text |-> t, calls |-> cs] :
        t \in {NoneText, SomeText(<<"o", "k">>)},
        cs \in UNION {[1..n -> LogicalCalls] : n \in 0..MaxCalls}}

RECURSIVE CompactPairs(_, _)
\* the members of an object as OpenAI serializes them, without spaces
CompactPairs(obj, i) ==
    IF i > Len(obj) THEN ""
    ELSE (IF i > 1 THEN "," ELSE "")
         \o "\"" \o obj[i][1] \o "\":\"" \o obj[i][2] \o "\""
         \o CompactPairs(obj, i + 1)

\* tc.function.arguments of an OpenAI tool call: the argument object as a JSON string
CompactInput(obj) == "{" \o CompactPairs(obj, 1) \o "}"

RECURSIVE OpenAIWireCalls(_, _)
\* message.tool_calls of an OpenAI response carrying the calls cs
OpenAIWireCalls(cs, i) ==
    IF i > Len(cs) THEN <<>>
    ELSE <<[id |-> cs[i].id, type |-> "function",
            function |-> [name |-> cs[i].name, arguments |-> CompactInput(cs[i].input)]]>>
         \o OpenAIWireCalls(cs, i + 1)

\* response.choices[0].message for the answer l: tool_calls is None (or an empty
\* list) when there is no call
OpenAIWires(l) ==
    {[content |-> l.text, tool_calls |-> tcs, blocks |-> <<>>] :
        tcs \in IF l.calls = <<>>
                THEN {[isNone |-> TRUE, v |-> <<>>], [isNone |-> FALSE, v |-> <<>>]}
                ELSE {[isNone |-> FALSE, v |-> OpenAIWireCalls(l.calls, 1)]}}

RECURSIVE ToolUseBlocks(_, _)
\* the tool_use blocks of an Anthropic response carrying the calls cs
ToolUseBlocks(cs, i) ==
    IF i > Len(cs) THEN <<>> ELSE <<ToolUseBlock(cs[i])>> \o ToolUseBlocks(cs, i + 1)

\* the block lists that carry the answer l: the text block, when there is a text,
\* stands before or after the tool_use blocks
AnswerBlocks(l) ==
    IF l.text.isNone
    THEN {ToolUseBlocks(l.calls, 1)}
    ELSE {<<TextBlock(l.text.v)>> \o ToolUseBlocks(l.calls, 1),
          ToolUseBlocks(l.calls, 1) \o <<TextBlock(l.text.v)>>}

\* response.content for the answer l: the answer's blocks, possibly with a thinking
\* block in front or at the end, and, when the answer has a text, possibly with an
\* earlier text block that the answer's text supersedes
AnthropicWires(l) ==
    {[content |-> NoneText, tool_calls |-> [isNone |-> TRUE, v |-> <<>>], blocks |-> b] :
        b \in AnswerBlocks(l)
              \cup {<<ThinkingBlock>> \o a : a \in AnswerBlocks(l)}
              \cup {a \o <<ThinkingBlock>> : a \in AnswerBlocks(l)}
              \cup (IF l.text.isNone THEN {}
                    ELSE {<<TextBlock(<<"d", "r", "a", "f", "t">>)>> \o a :
                             a \in AnswerBlocks(l)})}

\* message sequences the loop passes to an adapter: initial messages without and with
\* history, each also followed by the messages of completed tool calls
AdapterMessages ==
    LET ok == CHOOSE o \in RegistryOutcomes : o.success
        bad == CHOOSE o \in RegistryOutcomes : ~o.success
        plain == BuildMessages(<<>>, NoHistory)
        hist == BuildMessages(<<Block(IdA)>>,
                              [isNone |-> FALSE, v |-> <<HistUser, HistAssistant>>])
    IN { plain, hist,
         plain \o <<AssistantMsg(CallCalendar), ToolMsg(CallCalendar, ok)>>,
         hist \o <<AssistantMsg(CallCalendar), ToolMsg(CallCalendar, ok),
                   AssistantMsg(CallEmail), ToolMsg(CallEmail, bad)>> }

\* settings.ai_provider: Literal["openai", "anthropic"]
Providers == {"openai", "anthropic"}

\* the state in which the loop calls _call_llm_with_tools(messages)
InitAdapt ==
    /\ max_iterations = 1
    /\ top_k = DefaultTopK
    /\ chat_history = NoHistory
    /\ pc = "adapting"
    /\ rag_context = <<>>
    /\ search_results = <<>>
    /\ messages \in AdapterMessages
    /\ iteration = 1
    /\ final_response = NoneText
    /\ pending = <<>>
    /\ idx = 0
    /\ tool_calls_made = <<>>
    /\ tool_results = <<>>
    /\ result = NoResult
    /\ fault = NoneStr
    /\ provider_calls = 0
    /\ turns = <<>>
    /\ completed = <<>>
    /\ retrieval_failed = FALSE
    /\ sent = <<>>
    /\ provider_raised = FALSE
    /\ invoked = <<>>
    /\ EmailIdle
    /\ PairIdle
    /\ provider \in Providers
    /\ logical \in LogicalResponses
    /\ request = NoRequest
    /\ wire = NoWire
    /\ response = NoResponse

\* _call_openai(messages): the request, the provider's message, the returned dict
CallOpenAI ==
    /\ pc = "adapting"
    /\ provider = "openai"
    /\ request' = OpenAIRequest(messages)
    /\ \E w \in OpenAIWires(logical) :
          /\ wire' = w
          /\ response' = ParseOpenAI(w)
    /\ pc' = "adapted"
    /\ UNCHANGED <<max_iterations, top_k, chat_history, search_results, rag_context,
                   messages, iteration, final_response, pending, idx, tool_calls_made,
                   tool_results, result, fault, provider_calls, turns, completed,
                   retrieval_failed, sent, provider_raised, invoked, provider, logical,
                   email_vars, pair_vars>>

\* _call_anthropic(messages): the request, the provider's blocks, the returned dict
CallAnthropic ==
    /\ pc = "adapting"
    /\ provider = "anthropic"
    /\ request' = AnthropicRequest(messages)
    /\ \E w \in AnthropicWires(logical) :
          /\ wire' = w
          /\ response' = ParseAnthropic(w.blocks)
    /\ pc' = "adapted"
    /\ UNCHANGED <<max_iterations, top_k, chat_history, search_results, rag_context,
                   messages, iteration, final_response, pending, idx, tool_calls_made,
                   tool_results, result, fault, provider_calls, turns, completed,
                   retrieval_failed, sent, provider_raised, invoked, provider, logical,
                   email_vars, pair_vars>>

NextAdapt ==
    \/ CallOpenAI
    \/ CallAnthropic

SpecAdapt == InitAdapt /\ [][NextAdapt]_vars

\* ---------------------------------------------------------------- the email tool alone
\* the module's email_tool right after construction, no run in progress
InitEmail ==
    /\ max_iterations = 1
    /\ top_k = DefaultTopK
    /\ chat_history = NoHistory
    /\ InitRun
    /\ PairIdle

NextEmail ==
    \/ EmailExecute
    \/ EmailImports
    \/ EmailGetService
    \/ EmailSend
    \/ EmailExcept

SpecEmail == InitEmail /\ [][NextEmail]_vars


\* ---------------------------------------------------------------- two runs in flight
\* Two process_query coroutines on the one agent_service, interleaved at their
\* awaits. runs[r] holds the locals of run r and where it stands; its fields got
\* and outs are history variables: the provider responses and the registry
\* outcomes that run r itself received.
RunIds == {1, 2}

\* lists kept on the shared service object instead of in the call
ToolLogShared(r) == 1

\* tool_calls_made = [] and tool_results = [] are locals of the call: the lists
\* run r appends to and returns are its own
ToolLog(r) == r

\* the context each run retrieved
PairContext(r) == IF r = 1 THEN <<Block(IdA)>> ELSE <<Block(IdB)>>

\* what the provider answers to run r: a text, or one tool call, which is
\* well formed or carries arguments that are not JSON
PairResponses(r) ==
    { [content |-> SomeText(<<"o", "k">>), tool_calls |-> NoCalls] }
    \cup
    { [content |-> NoneText, tool_calls |-> [isNone |-> FALSE, v |-> <<tc>>]] :
        tc \in {IF r = 1 THEN CallCalendar ELSE CallEmail, CallBadJson} }

\* both runs have retrieved their context and are about to build their messages
InitPair ==
    /\ max_iterations = MaxIter
    /\ top_k = DefaultTopK
    /\ chat_history = NoHistory
    /\ InitRun
    /\ runs = [r \in RunIds |->
                 [pc |-> "prompting", max_iterations |-> MaxIter,
                  rag_context |-> PairContext(r), messages |-> <<>>,
                  iteration |-> 0, final_response |-> NoneText,
                  pending |-> <<>>, idx |-> 0,
                  tool_calls_made |-> <<>>, tool_results |-> <<>>,
                  result |-> NoResult, fault |-> NoneStr,
                  got |-> <<>>, outs |-> <<>>]]

\* messages = self._build_initial_messages(...); iteration = 0; final_response = None
PairBuild(r) ==
    /\ runs[r].pc = "prompting"
    /\ runs' = [runs EXCEPT ![r].messages = BuildMessages(runs[r].rag_context, chat_history),
                            ![r].iteration = 0,
                            ![r].final_response = NoneText,
                            ![r].pc = "calling"]
    /\ UNCHANGED <<run_vars, adapter_vars, email_vars>>

\* iteration += 1; response = await self._call_llm_with_tools(messages)
PairCallLLM(r) ==
    /\ runs[r].pc = "calling"
    /\ LoopGuard(runs[r].iteration, runs[r].max_iterations)
    /\ \/ \E e \in ProviderErrors :
            runs' = [runs EXCEPT ![r].iteration = @ + 1,
                                 ![r].fault = SomeStr(e),
                                 ![r].pc = "raised"]
       \/ \E resp \in PairResponses(r) :
            runs' = [runs EXCEPT
                        ![r].iteration = @ + 1,
                        ![r].got = Append(@, resp),
                        ![r].pc = AfterResponse(resp),
                        ![r].pending = IF HasToolCalls(resp) THEN resp.tool_calls.v ELSE @,
                        ![r].idx = IF HasToolCalls(resp) THEN 1 ELSE @,
                        ![r].final_response = IF HasToolCalls(resp) THEN @ ELSE resp.content]
    /\ UNCHANGED <<run_vars, adapter_vars, email_vars>>

\* the loop condition fails
PairLoopExit(r) ==
    /\ runs[r].pc = "calling"
    /\ ~LoopGuard(runs[r].iteration, runs[r].max_iterations)
    /\ runs' = [runs EXCEPT ![r].pc = "finishing"]
    /\ UNCHANGED <<run_vars, adapter_vars, email_vars>>

\* json.loads, tool_calls_made.append, up to the await of the registry
PairRecordToolCall(r) ==
    /\ runs[r].pc = "acting"
    /\ LET tc == PickCall(runs[r].pending, runs[r].idx)
           parsed == JsonLoads(tc.function.arguments)
       IN IF ~parsed.ok
          THEN runs' = [runs EXCEPT
                   ![r].fault = SomeStr("Expecting property name enclosed in double quotes"),
                   ![r].pc = "raised"]
          ELSE IF IsMapping(parsed)
          THEN runs' = [runs EXCEPT
                   ![ToolLog(r)].tool_calls_made = Append(@, Invocation(tc, parsed)),
                   ![r].pc = "dispatching"]
          ELSE runs' = [runs EXCEPT
                   ![ToolLog(r)].tool_calls_made = Append(@, Invocation(tc, parsed)),
                   ![r].fault = SomeStr("argument after ** must be a mapping, not list"),
                   ![r].pc = "raised"]
    /\ UNCHANGED <<run_vars, adapter_vars, email_vars>>

\* the registry returns: tool_results.append and the two messages.append
PairExecuteTool(r) ==
    /\ runs[r].pc = "dispatching"
    /\ LET tc == PickCall(runs[r].pending, runs[r].idx)
       IN \E out \in RegistryOutcomes :
            runs' = [runs EXCEPT
                        ![ToolLog(r)].tool_results = Append(@, Outcome(tc, out)),
                        ![r].messages = AppendToolMessages(@, tc, out),
                        ![r].outs = Append(@, [call |-> tc, outcome |-> out]),
                        ![r].pc = AfterTool(out, runs[r].idx, Len(runs[r].pending)),
                        ![r].idx = @ + 1]
    /\ UNCHANGED <<run_vars, adapter_vars, email_vars>>

\* step 4 and the return of the try block
PairFinish(r) ==
    /\ runs[r].pc = "finishing"
    /\ IF CitationsRaise(runs[r].rag_context)
       THEN runs' = [runs EXCEPT ![r].fault = SomeStr("'chunk_id'"),
                                 ![r].pc = "raised"]
       ELSE runs' = [runs EXCEPT
                  ![r].result = NormalResult(runs[r].final_response, runs[r].rag_context,
                                             runs[ToolLog(r)].tool_calls_made,
                                             runs[ToolLog(r)].tool_results,
                                             runs[r].iteration),
                  ![r].pc = "done"]
    /\ UNCHANGED <<run_vars, adapter_vars, email_vars>>

\* the except branch of process_query
PairHandleException(r) ==
    /\ runs[r].pc = "raised"
    /\ runs' = [runs EXCEPT
                  ![r].result = ErrorResult(runs[ToolLog(r)].tool_calls_made,
                                            runs[ToolLog(r)].tool_results,
                                            runs[r].fault.v),
                  ![r].pc = "done"]
    /\ UNCHANGED <<run_vars, adapter_vars, email_vars>>

NextPair ==
    \E r \in RunIds :
        \/ PairBuild(r)
        \/ PairCallLLM(r)
        \/ PairLoopExit(r)
        \/ PairRecordToolCall(r)
        \/ PairExecuteTool(r)
        \/ PairFinish(r)
        \/ PairHandleException(r)

SpecPair == InitPair /\ [][NextPair]_vars

\* ---------------------------------------------------------------- claims
\* the run has returned to its caller
Done == pc = "done"
\* the run returned the dict of the except branch
DoneError == Done /\ ~result.debug.error.isNone
\* the run returned the dict of the try block
DoneNormal == Done /\ result.debug.error.isNone
\* every provider response so far carried tool calls
AllToolTurns == \A i \in DOMAIN turns : Len(turns[i]) > 0

\* C1 as stated: every returned result has debug.iterations <= max_iterations and a
\* non-empty text, and a run whose provider turns all requested tools ends after
\* max_iterations provider calls.
C1_Original ==
    Done =>
        /\ result.debug.iterations <= max_iterations
        /\ Len(result.text) > 0
        /\ (AllToolTurns /\ DoneNormal => provider_calls = max_iterations)

\* C1 amended: for max_iterations >= 0 the provider is never called more than
\* max_iterations times, the loop can always take its next step, every returned
\* result has debug.iterations <= max_iterations, and a run without a fault whose
\* provider turns all requested tools ends after exactly max_iterations provider
\* calls; for every max_iterations the returned text is non-empty.
C1_BoundedIterations ==
    /\ (pc = "calling" => ENABLED (CallLLM \/ LoopExit))
    /\ (pc = "acting" => idx <= Len(pending) /\ ENABLED RecordToolCall)
    /\ (pc = "dispatching" => ENABLED ExecuteTool)
    /\ (Done => Len(result.text) > 0)
    /\ max_iterations >= 0 =>
        /\ provider_calls <= max_iterations
        /\ iteration <= max_iterations
        /\ Done => result.debug.iterations <= max_iterations
        /\ (DoneNormal /\ AllToolTurns) => provider_calls = max_iterations

\* a run in which every one of MaxIter provider turns requested tools has returned
C1_Witness ==
    /\ DoneNormal
    /\ max_iterations = MaxIter
    /\ provider_calls = MaxIter
    /\ AllToolTurns
    /\ result.text = FallbackText

\* C2 as stated: in every returned result tool_calls and tool_results have the same
\* length and agree on call_id position by position.
C2_Aligned ==
    Done =>
        /\ Len(result.tool_calls) = Len(result.tool_results)
        /\ \A i \in DOMAIN result.tool_calls :
              i \in DOMAIN result.tool_results
              /\ result.tool_results[i].call_id = result.tool_calls[i].call_id

\* C3 as stated: debug.iterations of the returned result is the number of provider
\* calls of the run.
C3_IterationsCountCalls == Done => result.debug.iterations = provider_calls

\* C4: no fault leaves process_query; whenever something raised inside the try block,
\* the run returns a dict with the five keys whose debug.error is the fault's message.
C4_FaultsBecomeResults ==
    /\ pc # "propagated"
    /\ (pc = "raised" => ENABLED HandleException)
    /\ (Done /\ ~fault.isNone) =>
          /\ DOMAIN result = {"text", "tool_calls", "tool_results", "citations", "debug"}
          /\ result.debug.error = fault
    /\ (Done /\ fault.isNone) => result.debug.error.isNone

\* an error result returned after the citation extractor raised, with a tool call
\* already made
C4_Witness ==
    /\ Done
    /\ fault = SomeStr("'chunk_id'")
    /\ Len(result.tool_calls) > 0
    /\ result.debug.error = SomeStr("'chunk_id'")

RECURSIVE CompletedCalls(_)
\* the invocations whose dispatch returned, in execution order
CompletedCalls(i) ==
    IF i > Len(completed) THEN <<>>
    ELSE <<Invocation(completed[i].call,
                      JsonLoads(completed[i].call.function.arguments))>>
         \o CompletedCalls(i + 1)

RECURSIVE CompletedOutcomes(_)
\* the outcomes the registry returned, in execution order
CompletedOutcomes(i) ==
    IF i > Len(completed) THEN <<>>
    ELSE <<Outcome(completed[i].call, completed[i].outcome)>>
         \o CompletedOutcomes(i + 1)

\* C5 as stated: an error result holds exactly the invocations and outcomes that
\* completed before the fault, in execution order, and no citations.
C5_ErrorKeepsCompleted ==
    DoneError =>
        /\ result.tool_calls = CompletedCalls(1)
        /\ result.tool_results = CompletedOutcomes(1)
        /\ result.citations = <<>>


\* the chunk ids of a context
IdsOf(ctx) == {ctx[i].chunk_id : i \in DOMAIN ctx}

\* "[t]" stands in text at position p
BracketedAt(text, p, t) ==
    /\ p + Len(t) + 1 <= Len(text)
    /\ text[p] = "["
    /\ SubSeq(text, p + 1, p + Len(t)) = t
    /\ text[p + Len(t) + 1] = "]"

\* the position of the first bracketed token equal to t among the scanned tokens
FirstTokenIndex(toks, t) ==
    CHOOSE k \in DOMAIN toks : toks[k] = t /\ \A m \in 1..(k - 1) : toks[m] # t

\* C6: the citations of a returned result are chunk ids of the run's context, hold no
\* duplicate, each stands bracketed in the final text, and they are ordered by the
\* first occurrence of their token in the text; a bracketed token that is no chunk
\* id of the context is absent and raises nothing.
C6_CitationsValid ==
    LET text == IF Truthy(final_response) THEN final_response.v ELSE <<>>
        toks == FindAll(text, 1)
        c == result.citations
    IN /\ (Done /\ ~CitationsRaise(rag_context)) => DoneNormal
       /\ DoneNormal =>
             /\ Range(c) \subseteq IdsOf(rag_context)
             /\ \A i, j \in DOMAIN c : i # j => c[i] # c[j]
             /\ \A i \in DOMAIN c :
                   /\ c[i] \in Range(toks)
                   /\ \E p \in DOMAIN text : BracketedAt(text, p, c[i])
             /\ \A i, j \in DOMAIN c :
                   i < j => FirstTokenIndex(toks, c[i]) < FirstTokenIndex(toks, c[j])
             /\ \A k \in DOMAIN toks :
                   toks[k] \notin IdsOf(rag_context) => toks[k] \notin Range(c)

\* "[b][a][b][ab]" over the context (ab, b): b is cited once although bracketed twice,
\* a is dropped, and the order is the text's, not the context's
C6_Witness ==
    /\ DoneNormal
    /\ final_response = SomeText(<<"[", "b", "]", "[", "a", "]", "[", "b", "]",
                                   "[", "a", "b", "]">>)
    /\ rag_context = <<Block(IdAB), Block(IdB)>>
    /\ result.citations = <<IdB, IdAB>>

\* the part of a chunk id before its first '#', or all of it
PrefixOf(s) ==
    LET k == CHOOSE n \in 0..Len(s) :
                 /\ \A i \in 1..n : s[i] # "#"
                 /\ (n = Len(s) \/ s[n + 1] = "#")
    IN SubSeq(s, 1, k)

\* the base prefix of a block (a block without chunk_id counts as '')
BlockPrefix(b) == PrefixOf(GetChunkId(b))

\* C7: _get_rag_context never returns more than 4 blocks, and no two returned blocks
\* have the same base prefix, whatever the retrieval client returned and whatever
\* top_k is.
C7_CapAndDistinctPrefixes ==
    /\ Len(rag_context) <= 4
    /\ \A i, j \in DOMAIN rag_context :
          i # j => BlockPrefix(rag_context[i]) # BlockPrefix(rag_context[j])

\* five candidates, one of them a near-duplicate that was skipped, cut to 4 blocks
C7_Witness ==
    /\ pc = "prompting"
    /\ Len(search_results) = 5
    /\ Len(rag_context) = 4
    /\ rag_context # SubSeq(search_results, 1, 4)
    /\ \E i, j \in DOMAIN search_results :
          i # j /\ BlockPrefix(search_results[i]) = BlockPrefix(search_results[j])

\* C8 as stated, for the runs that end without a later fault: after a retrieval fault
\* the context is empty, the run goes on to a provider call, and the returned result
\* has rag_context_used False and a non-empty text.
C8_Original ==
    /\ retrieval_failed => rag_context = <<>>
    /\ (DoneNormal /\ retrieval_failed) =>
          /\ provider_calls >= 1
          /\ ~result.debug.rag_context_used
          /\ Len(result.text) > 0

\* C8 amended: after a retrieval fault the context is empty and nothing propagates, the
\* run goes on to the prompt builder, and to a provider call when the prompt builder
\* does not raise and max_iterations >= 1; the returned result has rag_context_used
\* False and a non-empty text.
C8_RetrievalDegrades ==
    /\ retrieval_failed =>
          /\ rag_context = <<>>
          /\ pc \notin {"embedding", "searching", "propagated"}
          /\ (pc = "prompting" => fault.isNone)
    /\ (Done /\ retrieval_failed) =>
          /\ ~result.debug.rag_context_used
          /\ Len(result.text) > 0
          /\ (max_iterations >= 1 /\ ~HistoryRaises(chat_history)) => provider_calls >= 1

\* a run whose retrieval failed, that called the provider and returned normally
C8_Witness ==
    /\ DoneNormal
    /\ retrieval_failed
    /\ provider_calls >= 1
    /\ ~result.debug.rag_context_used

\* C9 as stated, for the runs that end without a fault: every failed outcome is in
\* tool_results, the run does not end on it, and a provider turn follows the turn it
\* was produced in.
C9_Original ==
    DoneNormal =>
        \A i \in DOMAIN completed :
            ~completed[i].outcome.success =>
                /\ i \in DOMAIN result.tool_results
                /\ result.tool_results[i] = Outcome(completed[i].call, completed[i].outcome)
                /\ provider_calls > completed[i].turn

\* C9 amended: every failed outcome is appended to tool_results as returned; the run
\* does not end because of it (a run without a fault ends only on a provider turn
\* without tool calls or on the iteration budget); and a provider turn follows the
\* turn it was produced in when that turn ends without a fault and
\* iteration < max_iterations.
C9_FailureFeedsBack ==
    /\ \A i \in DOMAIN completed :
          ~completed[i].outcome.success =>
              /\ i \in DOMAIN tool_results
              /\ tool_results[i] = Outcome(completed[i].call, completed[i].outcome)
    /\ (pc = "finishing" \/ DoneNormal) =>
          \/ provider_calls >= max_iterations
          \/ (turns # <<>> /\ turns[Len(turns)] = <<>>)
    /\ DoneNormal =>
          \A i \in DOMAIN completed :
              (~completed[i].outcome.success /\ completed[i].turn < max_iterations)
                  => provider_calls > completed[i].turn

\* a failed outcome of the first turn, followed by a second provider turn
C9_Witness ==
    /\ DoneNormal
    /\ provider_calls = 2
    /\ Len(result.tool_results) >= 1
    /\ ~result.tool_results[1].success
    /\ result.tool_results[1].error = SomeStr("invalid address")
    /\ completed[1].turn = 1

RECURSIVE Flatten(_, _)
\* the tool calls of all provider responses, in (turn, position) order
Flatten(ts, i) ==
    IF i > Len(ts) THEN <<>> ELSE ts[i] \o Flatten(ts, i + 1)

\* C10: tool calls are handled one at a time in the provider's order: while a call is
\* with the registry, every earlier call has its outcome in tool_results and its
\* assistant and tool messages at the end of the message sequence; tool_calls_made
\* and the registry returns follow the provider's calls in (turn, position) order.
C10_SerialInOrder ==
    LET flat == Flatten(turns, 1)
        base == Len(BuildMessages(rag_context, chat_history))
    IN /\ Len(tool_calls_made) <= Len(flat)
       /\ \A k \in DOMAIN tool_calls_made :
             /\ tool_calls_made[k].call_id = flat[k].id
             /\ tool_calls_made[k].tool_name = flat[k].function.name
       /\ \A k \in DOMAIN completed :
             /\ completed[k].call = flat[k]
             /\ k \in DOMAIN tool_results
             /\ tool_results[k].call_id = flat[k].id
             /\ completed[k].call = turns[completed[k].turn][completed[k].pos]
             /\ k > 1 =>
                   \/ completed[k - 1].turn < completed[k].turn
                   \/ /\ completed[k - 1].turn = completed[k].turn
                      /\ completed[k - 1].pos + 1 = completed[k].pos
       /\ pc = "dispatching" =>
             /\ Len(tool_calls_made) = Len(tool_results) + 1
             /\ Len(completed) = Len(tool_results)
             /\ Len(messages) = base + 2 * Len(tool_results)
             /\ \A k \in DOMAIN completed :
                   /\ messages[base + 2 * k - 1] = AssistantMsg(completed[k].call)
                   /\ messages[base + 2 * k] = ToolMsg(completed[k].call, completed[k].outcome)
       /\ Done =>
             /\ Len(result.tool_calls) <= Len(flat)
             /\ \A k \in DOMAIN result.tool_calls :
                   /\ result.tool_calls[k].call_id = flat[k].id
                   /\ result.tool_calls[k].tool_name = flat[k].function.name

\* the second call of a two-call turn is with the registry after a first turn's call
C10_Witness ==
    /\ pc = "dispatching"
    /\ iteration = 2
    /\ idx = 2
    /\ Len(completed) = 2
    /\ turns[2][1] # turns[2][2]
    /\ tool_calls_made[3].call_id = turns[2][2].id

\* msgs holds an assistant message with the tool call and, after it, a tool message
\* with the serialized outcome for the same call id
FedBack(msgs, call, outcome) ==
    \E a, t \in DOMAIN msgs :
        /\ a < t
        /\ msgs[a].role = "assistant"
        /\ \E c \in DOMAIN msgs[a].tool_calls :
              /\ msgs[a].tool_calls[c].id = call.id
              /\ msgs[a].tool_calls[c].function = call.function
        /\ msgs[t].role = "tool"
        /\ msgs[t].tool_call_id = call.id
        /\ msgs[t].content = SomeText(<<JsonDumps(outcome)>>)

\* C11: when a run without a fault ends on provider turn k+1 with a non-empty text and
\* no tool calls after k turns with tool calls, then k+1 <= max_iterations provider
\* calls were made, debug.iterations is k+1, the result's text is that turn's text,
\* and the messages passed to provider call k+1 hold, for every tool call made so
\* far, an assistant message with the call and a tool message with the
\* JSON-serialized registry result for the same call id.
C11_ToolTurnsThenText ==
    (DoneNormal /\ turns # <<>> /\ turns[Len(turns)] = <<>> /\ Truthy(final_response)) =>
        LET k1 == Len(turns)
        IN /\ \A i \in 1..(k1 - 1) : Len(turns[i]) > 0
           /\ k1 <= max_iterations
           /\ Len(sent) = k1
           /\ result.debug.iterations = k1
           /\ result.text = final_response.v
           /\ Len(tool_calls_made) = Len(Flatten(turns, 1))
           /\ Len(completed) = Len(tool_calls_made)
           /\ \A j \in DOMAIN completed :
                 /\ tool_calls_made[j].call_id = completed[j].call.id
                 /\ FedBack(sent[k1], completed[j].call, completed[j].outcome)

\* a run of two provider turns: two tool calls in the first, the text "ok" in the second
C11_Witness ==
    /\ DoneNormal
    /\ Len(turns) = 2
    /\ Len(turns[1]) = 2
    /\ turns[2] = <<>>
    /\ result.debug.iterations = 2
    /\ result.text = <<"o", "k">>
    /\ Len(sent[2]) = Len(sent[1]) + 4

\* the last provider response carried no tool calls
LastTurnToolFree == turns # <<>> /\ turns[Len(turns)] = <<>>

\* C12 as stated, for the runs that end without a fault: the text of a provider
\* response without tool calls is the result's text, no provider call and no tool
\* dispatch follows it, and on the first turn tool_calls and tool_results are empty.
C12_Original ==
    (DoneNormal /\ LastTurnToolFree) =>
        /\ result.text = final_response.v
        /\ provider_calls = Len(turns)
        /\ \A j \in DOMAIN completed : completed[j].turn < Len(turns)
        /\ Len(turns) = 1 => (result.tool_calls = <<>> /\ result.tool_results = <<>>)

\* C12 amended: a provider response without tool calls stops the loop: no provider
\* call and no tool dispatch follows it (only the last provider response of a run is
\* without tool calls); the result of a run that ends without a fault has the
\* response's text when that text is non-empty and the generic fallback text when it
\* is empty or null; on the first turn tool_calls and tool_results are empty.
C12_TextTurnEndsLoop ==
    /\ \A i \in 1..(Len(turns) - 1) : Len(turns[i]) > 0
    /\ LastTurnToolFree =>
          /\ pc \in {"finishing", "raised", "done"}
          /\ provider_calls = Len(turns)
          /\ Len(sent) = Len(turns)
          /\ Len(tool_calls_made) = Len(Flatten(turns, 1))
          /\ Len(completed) = Len(tool_calls_made)
          /\ \A j \in DOMAIN completed : completed[j].turn < Len(turns)
          /\ Done =>
                /\ Len(turns) = 1 => (result.tool_calls = <<>> /\ result.tool_results = <<>>)
                /\ DoneNormal =>
                      result.text = IF Truthy(final_response) THEN final_response.v
                                    ELSE FallbackText

\* a first provider turn without tool calls whose cited text is the result's text
C12_Witness ==
    /\ DoneNormal
    /\ Len(turns) = 1
    /\ turns[1] = <<>>
    /\ Len(final_response.v) > 2
    /\ result.text = final_response.v
    /\ result.citations = <<IdA>>
    /\ result.tool_calls = <<>>
    /\ result.tool_results = <<>>

\* C13: using up the iteration budget is no error: when every provider turn of a run
\* requested tools and nothing raised, the provider was called max_iterations times
\* (never for max_iterations <= 0), the run returns the generic fallback text with no
\* debug.error, and tool_calls and tool_results hold the invocation and the outcome
\* of every tool call of every turn, in order.
C13_ExhaustionIsSoft ==
    LET flat == Flatten(turns, 1)
    IN /\ (pc = "calling" /\ ~LoopGuard(iteration, max_iterations)) =>
             (fault.isNone /\ ENABLED LoopExit)
       /\ (pc = "finishing" /\ AllToolTurns) =>
             (fault.isNone /\ ~LoopGuard(iteration, max_iterations))
       /\ (Done /\ AllToolTurns /\ fault.isNone) =>
             /\ DoneNormal
             /\ provider_calls = (IF max_iterations > 0 THEN max_iterations ELSE 0)
             /\ Len(turns) = provider_calls
             /\ result.text = FallbackText
             /\ result.debug.error.isNone
             /\ Len(result.tool_calls) = Len(flat)
             /\ Len(result.tool_results) = Len(flat)
             /\ Len(completed) = Len(flat)
             /\ \A k \in DOMAIN flat :
                   /\ result.tool_calls[k] =
                          Invocation(flat[k], JsonLoads(flat[k].function.arguments))
                   /\ completed[k].call = flat[k]
                   /\ result.tool_results[k].call_id = flat[k].id
                   /\ result.tool_results[k].tool_name = flat[k].function.name
                   /\ result.tool_results[k].success = completed[k].outcome.success
                   /\ result.tool_results[k].result = completed[k].outcome.result
                   /\ result.tool_results[k].error = completed[k].outcome.error

\* MaxIter turns that all requested tools, three tool calls in all, one of them failed
C13_Witness ==
    /\ DoneNormal
    /\ max_iterations = MaxIter
    /\ Len(turns) = MaxIter
    /\ AllToolTurns
    /\ result.text = FallbackText
    /\ Len(result.tool_results) >= 3
    /\ \E k \in DOMAIN result.tool_results : ~result.tool_results[k].success

\* the last provider response carried neither tool calls nor a text
EmptyTurn == LastTurnToolFree /\ ~Truthy(final_response)

IsPrefix(a, b) == Len(a) <= Len(b) /\ SubSeq(b, 1, Len(a)) = a

\* C15: the message sequence of a run is only ever extended: the sequence passed to
\* provider call n is a prefix of the one passed to call n+1, the sequence passed to
\* the last call is a prefix of the current one, and the initial messages stay its
\* first elements; so no message is removed, reordered or changed and the length
\* never decreases.
C15_AppendOnly ==
    /\ Len(sent) = provider_calls
    /\ \A n \in 1..(Len(sent) - 1) :
          /\ IsPrefix(sent[n], sent[n + 1])
          /\ Len(sent[n]) <= Len(sent[n + 1])
    /\ sent # <<>> => IsPrefix(sent[Len(sent)], messages)
    /\ messages # <<>> => IsPrefix(BuildMessages(rag_context, chat_history), messages)
    /\ \A n \in DOMAIN sent : IsPrefix(BuildMessages(rag_context, chat_history), sent[n])

\* a second provider call whose messages extend the four messages of the first by the
\* two messages of one tool call
C15_Witness ==
    /\ Len(sent) = 2
    /\ Len(sent[1]) = 4
    /\ Len(sent[2]) = 6
    /\ SubSeq(sent[2], 1, 4) = sent[1]
    /\ sent[2][5].role = "assistant"
    /\ sent[2][6].role = "tool"

Adapted == pc = "adapted"

\* r has the two fields, tool_calls null or a non-empty list of {id, function{name,
\* arguments}} that follows the calls cs one by one, arguments a JSON object string
SameCalls(r, cs) ==
    /\ DOMAIN r = {"content", "tool_calls"}
    /\ (r.tool_calls.isNone \/ Len(r.tool_calls.v) > 0)
    /\ r.tool_calls.isNone <=> cs = <<>>
    /\ ~r.tool_calls.isNone =>
          /\ Len(r.tool_calls.v) = Len(cs)
          /\ \A i \in DOMAIN cs :
                /\ DOMAIN r.tool_calls.v[i] = {"id", "function"}
                /\ DOMAIN r.tool_calls.v[i].function = {"name", "arguments"}
                /\ r.tool_calls.v[i].id = cs[i].id
                /\ r.tool_calls.v[i].function.name = cs[i].name
                /\ r.tool_calls.v[i].function.arguments
                       \in {DumpsInput(cs[i].input), CompactInput(cs[i].input)}
                /\ JsonLoads(r.tool_calls.v[i].function.arguments).ok
                /\ IsMapping(JsonLoads(r.tool_calls.v[i].function.arguments))

RECURSIVE CallHeads(_, _)
\* the (id, name) pairs of a tool_calls list
CallHeads(tcs, i) ==
    IF i > Len(tcs) THEN <<>>
    ELSE << <<tcs[i].id, tcs[i].function.name>> >> \o CallHeads(tcs, i + 1)

\* C17: for one answer of the provider, either variant returns a dict with the fields
\* content and tool_calls, tool_calls null or a non-empty list of {id, function{name,
\* arguments as JSON string}} in the answer's order; the loop's branch test gives the
\* same under both variants, the calls agree in id and name position by position,
\* and the text is the answer's text when it has one and falsy under both when not.
C17_SameShape ==
    /\ Adapted =>
          /\ SameCalls(response, logical.calls)
          /\ HasToolCalls(response) <=> Len(logical.calls) > 0
          /\ Truthy(response.content) <=> Truthy(logical.text)
          /\ Truthy(response.content) => response.content = logical.text
    /\ Adapted => \A wa \in OpenAIWires(logical), wb \in AnthropicWires(logical) :
          LET ra == ParseOpenAI(wa)
              rb == ParseAnthropic(wb.blocks)
          IN /\ HasToolCalls(ra) <=> HasToolCalls(rb)
             /\ AfterResponse(ra) = AfterResponse(rb)
             /\ ra.tool_calls.isNone <=> rb.tool_calls.isNone
             /\ CallHeads(ra.tool_calls.v, 1) = CallHeads(rb.tool_calls.v, 1)
             /\ Truthy(ra.content) <=> Truthy(rb.content)
             /\ Truthy(ra.content) => ra.content = rb.content

\* an Anthropic answer of two different tool calls followed by a text block
C17_Witness ==
    /\ Adapted
    /\ provider = "anthropic"
    /\ Len(logical.calls) = 2
    /\ logical.calls[1] # logical.calls[2]
    /\ wire.blocks[3].type = "text"
    /\ response.content = SomeText(<<"o", "k">>)
    /\ response.tool_calls.v[2].id = logical.calls[2].id

\* C18 as stated: the text of _call_openai's result is null when tool calls are present
\* and non-null otherwise.
C18_Original ==
    (Adapted /\ provider = "openai") =>
        /\ HasToolCalls(response) => response.content.isNone
        /\ ~HasToolCalls(response) => ~response.content.isNone

\* C18 amended: the text of _call_openai's result is the content of the provider's
\* message as it came, null exactly when that content is null, whether or not tool
\* calls are present; tool_calls is null exactly when the message carries no tool
\* call.
C18_TextPassedThrough ==
    (Adapted /\ provider = "openai") =>
        /\ response.content = wire.content
        /\ response.content.isNone <=> logical.text.isNone
        /\ response.tool_calls.isNone <=> (wire.tool_calls.isNone \/ wire.tool_calls.v = <<>>)
        /\ response.tool_calls.isNone <=> logical.calls = <<>>

\* an OpenAI message with a text and a tool call: the result keeps both
C18_Witness ==
    /\ Adapted
    /\ provider = "openai"
    /\ HasToolCalls(response)
    /\ response.content = SomeText(<<"o", "k">>)
    /\ wire.content = SomeText(<<"o", "k">>)

\* C19: _call_anthropic sends the content of the system message as the system
\* parameter, sends every other message unchanged and in order as the message array,
\* and sends one tool descriptor per catalog entry, with the entry's name and
\* description and its parameters schema under input_schema.
C19_AnthropicRequest ==
    (Adapted /\ provider = "anthropic") =>
        /\ messages[1].role = "system"
        /\ request.system = messages[1].content
        /\ Len(request.messages) = Len(messages) - 1
        /\ \A i \in DOMAIN request.messages :
              /\ request.messages[i] = messages[i + 1]
              /\ request.messages[i].role # "system"
        /\ Len(request.tools) = Len(TOOL_DEFINITIONS)
        /\ \A i \in DOMAIN TOOL_DEFINITIONS :
              /\ DOMAIN request.tools[i] = {"name", "description", "input_schema"}
              /\ request.tools[i].name = TOOL_DEFINITIONS[i].function.name
              /\ request.tools[i].description = TOOL_DEFINITIONS[i].function.description
              /\ request.tools[i].input_schema = TOOL_DEFINITIONS[i].function.parameters

\* eight messages with history and two completed tool calls: seven go to the array
C19_Witness ==
    /\ Adapted
    /\ provider = "anthropic"
    /\ Len(messages) = 8
    /\ Len(request.messages) = 7
    /\ request.messages[7].role = "tool"
    /\ request.system = messages[1].content
    /\ request.tools[2].input_schema = "email schema"

\* what a step may do once a provider call has raised
AfterProviderFault ==
    provider_raised =>
        /\ provider_calls' = provider_calls
        /\ sent' = sent
        /\ completed' = completed
        /\ tool_calls_made' = tool_calls_made
        /\ tool_results' = tool_results
        /\ pc = "raised"
        /\ pc' = "done"
        /\ result'.debug.error = fault
        /\ ~result'.debug.error.isNone

\* C20: a provider call that raises ends the run: the fault is the one the except
\* branch handles next, and the only step taken after it is the return of the error
\* result, so no provider call is made again, no tool is dispatched, and the run ends
\* in DONE(error) with the fault's message.
C20_ProviderFaultFatal ==
    /\ [](provider_raised =>
             /\ pc \in {"raised", "done"}
             /\ fault.v \in ProviderErrors /\ ~fault.isNone
             /\ pc = "raised" => ENABLED HandleException
             /\ Done => (DoneError /\ result.debug.error = fault))
    /\ [][AfterProviderFault]_vars

\* the first provider call raised with budget left for a second: the run returned the
\* error result after that one call
C20_Witness ==
    /\ DoneError
    /\ provider_raised
    /\ max_iterations = MaxIter
    /\ provider_calls = 1
    /\ Len(sent) = 1
    /\ result.debug.error = SomeStr("auth failed")
    /\ result.tool_calls = <<>>

\* the shape of a tool outcome: a result and no error on success, an error and no
\* result on failure
Exclusive(o) ==
    /\ o.success => ~o.result.isNone /\ o.error.isNone
    /\ ~o.success => o.result.isNone /\ ~o.error.isNone

\* C21: every tool outcome has result and error mutually exclusive: success=true
\* comes with a result and a null error, success=false with a null result and an
\* error; this holds of every response the tools build with _success_response or
\* _error_response, of what the registry hands to the loop, and of every entry of
\* tool_results.
C21_OutcomeExclusive ==
    /\ \A k \in DOMAIN tool_results :
          /\ Exclusive(tool_results[k])
          /\ tool_results[k].success = completed[k].outcome.success
    /\ \A k \in DOMAIN completed : Exclusive(completed[k].outcome)
    /\ email_pc = "returned" => Exclusive(email_out)

C21_Witness ==
    /\ Done
    /\ \E j, k \in DOMAIN result.tool_results :
          /\ result.tool_results[j].success
          /\ ~result.tool_results[k].success

\* how many times a service was invoked in the run so far
Invocations(s) == Cardinality({k \in DOMAIN invoked : invoked[k] = s})

\* the retrieval calls come first, then the prompt builder, then the loop's calls
Ordered ==
    \A j, k \in DOMAIN invoked :
        /\ invoked[j] = "embed" /\ invoked[k] # "embed" => j < k
        /\ invoked[j] = "search" /\ invoked[k] \in {"build", "provider", "registry"} => j < k
        /\ invoked[j] = "build" /\ invoked[k] \in {"provider", "registry"} => j < k

\* the claim as stated: once retrieval is over, the embedding service and the
\* retrieval client have each been invoked exactly once
C22_Original ==
    /\ Ordered
    /\ pc \notin {"embedding", "searching"} =>
          Invocations("embed") = 1 /\ Invocations("search") = 1
    /\ pc \notin {"embedding", "searching", "prompting"} => Invocations("build") = 1

\* C22: a run goes through retrieval, prompt building and the loop in this order:
\* the embedding service is invoked exactly once and the retrieval client at most
\* once (exactly once unless retrieval failed before reaching it), both before the
\* prompt is built; the prompt builder runs exactly once, before the first provider
\* call; none of the three is invoked again in later iterations of the loop.
C22_RetrieveBuildCall ==
    /\ Ordered
    /\ Invocations("embed") <= 1
    /\ Invocations("search") <= 1
    /\ Invocations("build") <= 1
    /\ pc # "embedding" => Invocations("embed") = 1
    /\ pc \notin {"embedding", "searching"} =>
          \/ Invocations("search") = 1
          \/ Invocations("search") = 0 /\ retrieval_failed /\ rag_context = <<>>
    /\ pc \notin {"embedding", "searching", "prompting"} => Invocations("build") = 1
    /\ Invocations("provider") = provider_calls
    /\ provider_calls > 0 => Invocations("build") = 1 /\ Invocations("embed") = 1

C22_Witness ==
    /\ DoneNormal
    /\ provider_calls = 2
    /\ Invocations("registry") >= 1
    /\ Invocations("search") = 1
    /\ invoked[1] = "embed" /\ invoked[2] = "search" /\ invoked[3] = "build"

RECURSIVE Replay(_, _, _)
\* the message sequence after the outcomes outs[i..] were fed back, in order
Replay(msgs, outs, i) ==
    IF i > Len(outs) THEN msgs
    ELSE Replay(AppendToolMessages(msgs, outs[i].call, outs[i].outcome), outs, i + 1)

\* the tool_results entries and the tool_calls entries of a list of received outcomes
OwnResults(outs) == [k \in DOMAIN outs |-> Outcome(outs[k].call, outs[k].outcome)]
OwnCalls(outs) ==
    [k \in DOMAIN outs |->
        Invocation(outs[k].call, JsonLoads(outs[k].call.function.arguments))]

\* C24: two process_query runs interleaved on the shared agent_service do not
\* interfere: at every point each run's message sequence, tool_calls, tool_results
\* and iteration count are exactly what that run's own provider responses and tool
\* outcomes produce, as in a run executed alone, whatever the other run did meanwhile.
C24_RunsIsolated ==
    \A r \in DOMAIN runs :
        LET me == runs[r]
            log == runs[ToolLog(r)]
            inFlight == IF me.pc = "dispatching"
                        THEN <<Invocation(PickCall(me.pending, me.idx),
                                   JsonLoads(PickCall(me.pending, me.idx).function.arguments))>>
                        ELSE <<>>
        IN /\ me.pc # "prompting" =>
                me.messages = Replay(BuildMessages(PairContext(r), NoHistory), me.outs, 1)
           /\ log.tool_results = OwnResults(me.outs)
           /\ log.tool_calls_made = OwnCalls(me.outs) \o inFlight
           /\ me.iteration >= Len(me.got) /\ me.iteration <= Len(me.got) + 1
           /\ me.fault.isNone => me.iteration = Len(me.got)
           /\ me.pc = "done" =>
                /\ me.result.tool_calls = OwnCalls(me.outs)
                /\ me.result.tool_results = OwnResults(me.outs)
                /\ me.result.debug.error.isNone =>
                      me.result.debug.iterations = Len(me.got)

C24_Witness ==
    /\ DOMAIN runs = RunIds
    /\ \A r \in RunIds :
          /\ runs[r].pc = "dispatching"
          /\ Len(runs[r].outs) = 1
          /\ runs[r].iteration = 2

\* the provider's calls that the registry was given, in dispatch order
Dispatched == [k \in DOMAIN completed |-> completed[k].call]

\* C25 as stated: every tool invocation the provider emits in a turn that is reached
\* is dispatched to the registry exactly once (the dispatches follow the provider's
\* calls one for one, none skipped in between, none repeated, and all of them in a
\* run that ends without a fault), and the number of registry dispatches equals the
\* number of entries in tool_calls.
C25_DispatchedOnce ==
    LET flat == Flatten(turns, 1)
    IN /\ Invocations("registry") = Len(completed)
       /\ Len(completed) <= Len(flat)
       /\ Dispatched = SubSeq(flat, 1, Len(completed))
       /\ DoneNormal => Dispatched = flat
       /\ Done => Len(result.tool_calls) = Invocations("registry")

\* C26 as stated: EmailTool.execute, called with to, subject and body, always returns
\* a {success, result, error} dict and never raises: whatever exception occurs inside
\* it (the Gmail service cannot be initialised, a Google package is missing, the Gmail
\* API answers with an error, anything else) the call returns success=false with an
\* error string.
C26_NeverRaises ==
    /\ email_pc # "raised"
    /\ email_pc = "returned" =>
          /\ Exclusive(email_out)
          /\ email_exc # NoException => ~email_out.success /\ ~email_out.error.isNone

\* the positions of the candidates that are the first to carry their base prefix
FirstCarriers(results) ==
    {i \in DOMAIN results :
        \A j \in 1..(i - 1) : BlockPrefix(results[j]) # BlockPrefix(results[i])}

\* the k-th smallest element of a set of positions
Nth(positions, k) ==
    CHOOSE i \in positions : Cardinality({j \in positions : j <= i}) = k

\* C27: the blocks _get_rag_context returns are a subsequence of the candidates in
\* their original order; for each base prefix the accepted block is the first
\* candidate that carries it; the number of blocks returned is the smaller of 4 and
\* the number of distinct base prefixes among the candidates.
C27_FirstOfEachPrefix ==
    (pc = "prompting" /\ ~retrieval_failed) =>
        LET first == FirstCarriers(search_results)
        IN /\ Len(rag_context) =
                 IF Cardinality(first) < 4 THEN Cardinality(first) ELSE 4
           /\ \A k \in DOMAIN rag_context :
                 rag_context[k] = search_results[Nth(first, k)]

\* five candidates with three distinct prefixes, the duplicates in between skipped
C27_Witness ==
    /\ pc = "prompting"
    /\ ~retrieval_failed
    /\ Len(search_results) = 5
    /\ Len(rag_context) = 3
    /\ rag_context[2] = search_results[3]
    /\ rag_context[3] = search_results[5]

\* C28: for each executed tool call the loop appends exactly two messages: an
\* assistant message whose tool_calls holds that single call, then a tool message
\* whose tool_call_id is the call's id and whose content is the JSON serialization
\* of the registry outcome. The messages after the initial ones are these pairs in
\* execution order, a turn with n calls has extended the sequence by 2n messages
\* when the next provider call is made, and every tool message is immediately
\* preceded by the assistant message with the same call id.
C28_TwoMessagesPerCall ==
    messages # <<>> =>
        LET base == Len(messages) - 2 * Len(completed)
        IN /\ base >= 1
           /\ SubSeq(messages, 1, base) = BuildMessages(rag_context, chat_history)
           /\ \A k \in DOMAIN completed :
                 LET a == messages[base + 2 * k - 1]
                     t == messages[base + 2 * k]
                     call == completed[k].call
                 IN /\ a.role = "assistant"
                    /\ a.content = NoneText
                    /\ Len(a.tool_calls) = 1
                    /\ a.tool_calls[1].id = call.id
                    /\ a.tool_calls[1].type = "function"
                    /\ a.tool_calls[1].function = call.function
                    /\ t.role = "tool"
                    /\ t.tool_call_id = call.id
                    /\ t.content = SomeText(<<JsonDumps(completed[k].outcome)>>)
           /\ \A i \in DOMAIN messages :
                 messages[i].role = "tool" =>
                    /\ i > 1
                    /\ messages[i - 1].role = "assistant"
                    /\ Len(messages[i - 1].tool_calls) = 1
                    /\ messages[i - 1].tool_calls[1].id = messages[i].tool_call_id
           /\ \A n \in 2..Len(sent) :
                 Len(sent[n]) = Len(sent[n - 1]) + 2 * Len(turns[n - 1])

\* two provider calls with a turn of two tool calls in between: four messages more
C28_Witness ==
    /\ Len(sent) = 2
    /\ Len(turns[1]) = 2
    /\ Len(completed) = 2
    /\ Len(sent[2]) = Len(sent[1]) + 4
    /\ messages[Len(messages)].role = "tool"
    /\ messages[Len(messages)].tool_call_id = turns[1][2].id

\* the arguments text of a tool call is not valid JSON
Malformed(tc) == tc.function.arguments = "{"

\* the run has raised on arguments that are not valid JSON
JsonFault == fault = SomeStr("Expecting property name enclosed in double quotes")

\* C29: a provider response with a tool call whose arguments are not valid JSON is
\* fatal to the run: the run ends with the error result, the malformed invocation is
\* neither recorded in tool_calls nor dispatched, no later tool call of that turn is
\* dispatched, and the invocations and outcomes completed before it are preserved in
\* the error result.
C29_MalformedArgumentsFatal ==
    /\ \A k \in DOMAIN tool_calls_made : tool_calls_made[k].arguments.src # "{"
    /\ \A k \in DOMAIN completed : ~Malformed(completed[k].call)
    /\ \A n \in DOMAIN turns :
          (\E c \in DOMAIN turns[n] : Malformed(turns[n][c])) =>
             /\ n = Len(turns)
             /\ pc \in {"acting", "dispatching", "raised", "done"}
             /\ Done => DoneError
    /\ JsonFault =>
          LET before == Len(Flatten(SubSeq(turns, 1, Len(turns) - 1), 1)) + idx - 1
          IN /\ pc \in {"raised", "done"}
             /\ Malformed(PickCall(pending, idx))
             /\ \A c \in 1..(idx - 1) : ~Malformed(pending[c])
             /\ Len(completed) = before
             /\ Invocations("registry") = before
             /\ tool_calls_made = CompletedCalls(1)
             /\ tool_results = CompletedOutcomes(1)
             /\ Done =>
                   /\ DoneError
                   /\ result.debug.error = fault
                   /\ result.tool_calls = CompletedCalls(1)
                   /\ result.tool_results = CompletedOutcomes(1)

\* a first turn with one completed call, then a turn whose first call is malformed
\* and whose second call is never dispatched
C29_Witness ==
    /\ DoneError
    /\ JsonFault
    /\ Len(turns) = 2
    /\ Len(turns[2]) = 2
    /\ idx = 1
    /\ Len(result.tool_calls) = 1
    /\ Len(result.tool_results) = 1

\* C30: the text of every result is non-empty: it is the provider's text of the turn
\* without tool calls when that text is non-empty, the fallback 'I processed your
\* request.' when that text is empty or null or the iteration budget ran out, or the
\* error message when the run ends with the error result; it is never a raw tool
\* result.
C30_TextNeverEmpty ==
    Done =>
        /\ Len(result.text) > 0
        /\ DoneError =>
              /\ Len(result.text) = Len(ErrorPrefix) + 1
              /\ SubSeq(result.text, 1, Len(ErrorPrefix)) = ErrorPrefix
              /\ result.text[Len(result.text)] = fault.v
        /\ DoneNormal =>
              IF LastTurnToolFree /\ Truthy(final_response)
              THEN result.text = final_response.v
              ELSE result.text = FallbackText
        /\ \A k \in DOMAIN completed :
              result.text # <<JsonDumps(completed[k].outcome)>>

\* an error result for an exception whose message is empty, after a completed tool call
C30_Witness ==
    /\ DoneError
    /\ fault = SomeStr("")
    /\ Len(completed) >= 1
    /\ result.text = ErrorPrefix \o <<"">>

\* C31: in every error result debug.rag_context_used is False and debug.rag_chunk_ids
\* is empty, whether or not context blocks had been retrieved before the fault, while
\* debug.tools_called lists, in order, the names of the invocations recorded before
\* the fault, which are the names of the provider's calls in the order it gave them.
C31_ErrorDebugFields ==
    DoneError =>
        /\ ~result.debug.rag_context_used
        /\ result.debug.rag_chunk_ids = <<>>
        /\ result.debug.tools_called =
              [k \in DOMAIN tool_calls_made |-> tool_calls_made[k].tool_name]
        /\ Len(result.debug.tools_called) = Len(result.tool_calls)
        /\ \A k \in DOMAIN result.debug.tools_called :
              result.debug.tools_called[k] = Flatten(turns, 1)[k].function.name

\* a fault after context was retrieved and two invocations were recorded
C31_Witness ==
    /\ DoneError
    /\ Len(rag_context) > 0
    /\ provider_raised
    /\ result.debug.tools_called = <<"create_calendar_event", "send_email">>

NoneNames(args) ==
    (IF args.to.isNone THEN <<"to">> ELSE <<>>)
    \o (IF args.subject.isNone THEN <<"subject">> ELSE <<>>)
    \o (IF args.body.isNone THEN <<"body">> ELSE <<>>)

\* the names written out with ', ' between them
Listed(names) ==
    CASE Len(names) = 1 -> names[1]
      [] Len(names) = 2 -> names[1] \o ", " \o names[2]
      [] Len(names) = 3 -> names[1] \o ", " \o names[2] \o ", " \o names[3]
      [] OTHER -> ""

\* dicts that hold only some of the required names
PartialProvided ==
    { [n \in keys |-> v] : keys \in SUBSET {"to", "subject", "body"},
                           v \in {NoneStr, SomeStr(""), SomeStr("x")} }

\* a step that starts a call with a None argument touches neither the service nor
\* the flag
NoneCallLeavesService ==
    NoneNames(email_args') # <<>> =>
        /\ service' = service
        /\ initialized' = initialized

\* C33: EmailTool.execute called with any of to, subject, body equal to None returns
\* an error outcome that names exactly the None parameters in the order to, subject,
\* body, without initialising the Gmail service or attempting a send; validate_params
\* answers (True, []) exactly when every required name is present with a value that
\* is not None (the empty string counts as a value), and otherwise (False, missing)
\* with missing in the order of the required list.
C33_NoneParametersRejected ==
    /\ [](/\ (email_pc # "idle" /\ NoneNames(email_args) # <<>>) =>
               /\ email_pc = "returned"
               /\ email_exc = NoException
               /\ ~http_error_bound
               /\ email_out = ErrorResponse(SomeStr("Missing required parameters: "
                                                    \o Listed(NoneNames(email_args))))
          /\ (email_pc = "returned" /\ NoneNames(email_args) = <<>>) =>
               (email_out.success \/ email_exc # NoException)
          /\ LET v == ValidateParams(<<"to", "subject", "body">>, email_args)
             IN /\ v.is_valid <=> NoneNames(email_args) = <<>>
                /\ v.missing = NoneNames(email_args)
          /\ email_pc # "idle" => \A provided \in PartialProvided :
                LET v == ValidateParams(<<"to", "subject", "body">>, provided)
                    absent == {n \in {"to", "subject", "body"} :
                                  n \notin DOMAIN provided \/ provided[n].isNone}
                IN /\ v.is_valid <=> absent = {}
                   /\ v.is_valid => v.missing = <<>>
                   /\ {v.missing[k] : k \in DOMAIN v.missing} = absent
                   /\ Len(v.missing) = Cardinality(absent)
                   /\ \A j, k \in DOMAIN v.missing :
                         (v.missing[j] = "to" /\ j # k) => j < k)
    /\ [][NoneCallLeavesService]_vars

\* a call with to and body None after the service had been built by an earlier call
C33_Witness ==
    /\ email_pc = "returned"
    /\ email_args.to.isNone /\ ~email_args.subject.isNone /\ email_args.body.isNone
    /\ email_out.error = SomeStr("Missing required parameters: to, body")
    /\ initialized

\* the positions of the blocks of one type
BlocksOfType(blocks, type) == {i \in DOMAIN blocks : blocks[i].type = type}

\* C34: _call_anthropic scanning the block list of a response returns as text the
\* text of the last block of type text (the empty string when there is none) and as
\* tool_calls the blocks of type tool_use in block order, each as {id, function{name,
\* arguments = json.dumps(input)}} (null when there are none); a response that mixes
\* text and tool_use blocks keeps both; blocks of any other type are ignored.
C34_AnthropicBlocks ==
    (Adapted /\ provider = "anthropic") =>
        LET blocks == wire.blocks
            texts == BlocksOfType(blocks, "text")
            uses == BlocksOfType(blocks, "tool_use")
        IN /\ response.content =
                 IF texts = {} THEN SomeText(<<>>)
                 ELSE SomeText(blocks[Nth(texts, Cardinality(texts))].text)
           /\ response.tool_calls.isNone <=> uses = {}
           /\ Len(response.tool_calls.v) = Cardinality(uses)
           /\ \A k \in DOMAIN response.tool_calls.v :
                 LET b == blocks[Nth(uses, k)]
                     c == response.tool_calls.v[k]
                 IN /\ c.id = b.id
                    /\ c.function.name = b.name
                    /\ c.function.arguments = DumpsInput(b.input)

\* an earlier text block, the answer's text, then two tool_use blocks
C34_Witness ==
    /\ Adapted
    /\ provider = "anthropic"
    /\ Len(wire.blocks) = 4
    /\ wire.blocks[1].type = "text"
    /\ wire.blocks[2].type = "text"
    /\ wire.blocks[1].text # wire.blocks[2].text
    /\ response.content = SomeText(wire.blocks[2].text)
    /\ Len(response.tool_calls.v) = 2

\* a thinking block in front of a single tool_use block: no text, one call
C34_WitnessIgnored ==
    /\ Adapted
    /\ provider = "anthropic"
    /\ wire.blocks[1].type = "thinking"
    /\ response.content = SomeText(<<>>)
    /\ Len(response.tool_calls.v) = 1

\* self._service holds a service that build returned
HoldsBuiltService == ~service.isNone /\ service.v \in BuiltServices

\* a step of an execute call in which the initialisation of _get_service fails
InitialisationFails ==
    email_pc = "initialising" /\ ~initialized /\ email_pc' = "handling"

\* C35: across any sequence of EmailTool.execute calls, _initialized is true only if
\* _service holds a built Gmail service; a failed initialisation leaves _initialized
\* false (and _service as it was), so that the next execute that reaches _get_service
\* initialises again and goes on to send only with a built service; once the
\* initialisation has succeeded, _initialized stays true and _service is never
\* rebuilt or replaced.
C35_ServiceInitialisedOnce ==
    /\ [](initialized => HoldsBuiltService)
    /\ []((email_pc = "sending") => (initialized /\ HoldsBuiltService))
    /\ [][/\ InitialisationFails => (~initialized' /\ service' = service)
          /\ (email_pc = "initialising" /\ ~initialized /\ email_pc' = "sending")
                => (initialized' /\ service'.v \in BuiltServices)
          /\ initialized => (initialized' /\ service' = service)]_vars

\* a later execute call reaches _get_service with the service built by an earlier call
C35_Witness ==
    /\ email_pc = "initialising"
    /\ initialized
    /\ HoldsBuiltService

\* an execute call whose initialisation has just failed: nothing built, flag false
C35_WitnessFailed ==
    /\ email_pc = "handling"
    /\ email_exc \in ServiceFaults
    /\ http_error_bound
    /\ ~initialized
    /\ service = NoneStr

====
